---- MODULE Spec2Model ----
(***************************************************************************)
(* The execution orchestration of the Claude Code node                     *)
(* (src/nodes/ClaudeCode/ClaudeCode.node.ts, ClaudeCode.execute and its    *)
(* helpers): the sequential item loop, the per-item timeout timer, the     *)
(* first agent stream, the working-directory fallback stream, the          *)
(* normalisation of the collected messages and the outer failure handler.  *)
(*                                                                         *)
(* Granularity: one action per stretch of code between two suspension      *)
(* points of execute() (an awaited filesystem probe, the next event of an  *)
(* agent stream), plus the head of the item loop.  Timer callbacks are     *)
(* macrotasks, so they run only while execute() is suspended or finished.  *)
(*                                                                         *)
(* Strings are values of Atoms, or ropes (sequences of atoms) where the    *)
(* code concatenates; Chars gives the characters of an atom, so that       *)
(* trim(), toLowerCase(), includes() and JSON.stringify() are computed     *)
(* character by character.  Optional values (undefined in the code) are    *)
(* sequences of length 0 or 1.                                             *)
(*                                                                         *)
(* Spec is the batch.  SpecPrepare builds the requests of one item for     *)
(* every requested tool list, SpecValidator runs validateProjectPath probe *)
(* by probe next to a directory that may change, and SpecNormalize ends    *)
(* the first stream on every short sequence of collected events.           *)
(* SpecRequest adds the request of the second class of the file, the one  *)
(* with the operation 'approve'; SpecPlanning is one call of               *)
(* executeInteractivePlanningLoop (src/unnamed/part_001) and SpecStreams   *)
(* is Spec together with it, every loop that consumes an agent stream.     *)
(***************************************************************************)
EXTENDS Integers, Sequences, FiniteSets, TLC

\* ------------------------------------------------------------------ bounds
\* Largest number of input items of a batch.
MaxItems == 2
\* Largest number of events one agent stream delivers before it ends.
MaxEvents == 1
\* Largest number of entries of a requested allowedTools list.
MaxTools == 2
\* Largest number of collected events handed to the normaliser on its own.
MaxMessages == 2

\* ----------------------------------------------------------------- options
None == <<>>
Some(v) == <<v>>
IsSome(o) == Len(o) > 0
Val(o) == o[1]

\* ----------------------------------------------------------------- strings
\* ---- string table ----
Atoms ==
  {"",
   "  ",
   "fix",
   "/p",
   "add tests",
   "working directory",
   "cwd",
   "chdir",
   "no such file or directory",
   "plan mode",
   "ExitPlanMode",
   "Invalid CWD",
   "chdir failed",
   "Working directory missing",
   "ENOENT: no such file or directory",
   "rate limit exceeded",
   "Operation aborted",
   "aborted, cwd unavailable",
   "max turns reached",
   "Cannot access CWD",
   "chdir EACCES",
   "bad working directory",
   "Prompt is required and cannot be empty",
   "Claude CLI is not installed or not accessible. Install with: npm install -g @anthropic-ai/claude-code",
   "Claude CLI is installed but not authenticated. Run \"claude auth login\" to authenticate.",
   "Invalid project path: ",
   "Directory does not exist: ",
   "Path exists but is not a directory: ",
   "Insufficient permissions for directory: ",
   "An unknown error occurred",
   "\""}

Chars ==
  [s \in Atoms |->
    CASE s = "" ->
           <<>>
      [] s = "  " ->
           <<" ", " ">>
      [] s = "fix" ->
           <<"f", "i", "x">>
      [] s = "/p" ->
           <<"/", "p">>
      [] s = "add tests" ->
           <<"a", "d", "d", " ", "t", "e", "s", "t", "s">>
      [] s = "working directory" ->
           <<"w", "o", "r", "k", "i", "n", "g", " ", "d", "i", "r", "e", "c", "t", "o", "r", "y">>
      [] s = "cwd" ->
           <<"c", "w", "d">>
      [] s = "chdir" ->
           <<"c", "h", "d", "i", "r">>
      [] s = "no such file or directory" ->
           <<"n", "o", " ", "s", "u", "c", "h", " ", "f", "i", "l", "e", " ", "o", "r", " ", "d", "i", "r", "e", "c", "t", "o", "r", "y">>
      [] s = "plan mode" ->
           <<"p", "l", "a", "n", " ", "m", "o", "d", "e">>
      [] s = "ExitPlanMode" ->
           <<"E", "x", "i", "t", "P", "l", "a", "n", "M", "o", "d", "e">>
      [] s = "Invalid CWD" ->
           <<"I", "n", "v", "a", "l", "i", "d", " ", "C", "W", "D">>
      [] s = "chdir failed" ->
           <<"c", "h", "d", "i", "r", " ", "f", "a", "i", "l", "e", "d">>
      [] s = "Working directory missing" ->
           <<"W", "o", "r", "k", "i", "n", "g", " ", "d", "i", "r", "e", "c", "t", "o", "r", "y", " ", "m", "i", "s", "s", "i", "n", "g">>
      [] s = "ENOENT: no such file or directory" ->
           <<"E", "N", "O", "E", "N", "T", ":", " ", "n", "o", " ", "s", "u", "c", "h", " ", "f", "i", "l", "e", " ", "o", "r", " ", "d", "i", "r", "e", "c", "t", "o", "r", "y">>
      [] s = "rate limit exceeded" ->
           <<"r", "a", "t", "e", " ", "l", "i", "m", "i", "t", " ", "e", "x", "c", "e", "e", "d", "e", "d">>
      [] s = "Operation aborted" ->
           <<"O", "p", "e", "r", "a", "t", "i", "o", "n", " ", "a", "b", "o", "r", "t", "e", "d">>
      [] s = "aborted, cwd unavailable" ->
           <<"a", "b", "o", "r", "t", "e", "d", ",", " ", "c", "w", "d", " ", "u", "n", "a", "v", "a", "i", "l", "a", "b", "l", "e">>
      [] s = "max turns reached" ->
           <<"m", "a", "x", " ", "t", "u", "r", "n", "s", " ", "r", "e", "a", "c", "h", "e", "d">>
      [] s = "Cannot access CWD" ->
           <<"C", "a", "n", "n", "o", "t", " ", "a", "c", "c", "e", "s", "s", " ", "C", "W", "D">>
      [] s = "chdir EACCES" ->
           <<"c", "h", "d", "i", "r", " ", "E", "A", "C", "C", "E", "S">>
      [] s = "bad working directory" ->
           <<"b", "a", "d", " ", "w", "o", "r", "k", "i", "n", "g", " ", "d", "i", "r", "e", "c", "t", "o", "r", "y">>
      [] s = "Prompt is required and cannot be empty" ->
           <<"P", "r", "o", "m", "p", "t", " ", "i", "s", " ", "r", "e", "q", "u", "i", "r", "e", "d", " ", "a", "n", "d", " ", "c", "a", "n", "n", "o", "t", " ", "b", "e", " ", "e", "m", "p", "t", "y">>
      [] s = "Claude CLI is not installed or not accessible. Install with: npm install -g @anthropic-ai/claude-code" ->
           <<"C", "l", "a", "u", "d", "e", " ", "C", "L", "I", " ", "i", "s", " ", "n", "o", "t", " ", "i", "n", "s", "t", "a", "l", "l", "e", "d", " ", "o", "r", " ", "n", "o", "t", " ", "a", "c", "c", "e", "s", "s", "i", "b", "l", "e", ".", " ", "I", "n", "s", "t", "a", "l", "l", " ", "w", "i", "t", "h", ":", " ", "n", "p", "m", " ", "i", "n", "s", "t", "a", "l", "l", " ", "-", "g", " ", "@", "a", "n", "t", "h", "r", "o", "p", "i", "c", "-", "a", "i", "/", "c", "l", "a", "u", "d", "e", "-", "c", "o", "d", "e">>
      [] s = "Claude CLI is installed but not authenticated. Run \"claude auth login\" to authenticate." ->
           <<"C", "l", "a", "u", "d", "e", " ", "C", "L", "I", " ", "i", "s", " ", "i", "n", "s", "t", "a", "l", "l", "e", "d", " ", "b", "u", "t", " ", "n", "o", "t", " ", "a", "u", "t", "h", "e", "n", "t", "i", "c", "a", "t", "e", "d", ".", " ", "R", "u", "n", " ", "\"", "c", "l", "a", "u", "d", "e", " ", "a", "u", "t", "h", " ", "l", "o", "g", "i", "n", "\"", " ", "t", "o", " ", "a", "u", "t", "h", "e", "n", "t", "i", "c", "a", "t", "e", ".">>
      [] s = "Invalid project path: " ->
           <<"I", "n", "v", "a", "l", "i", "d", " ", "p", "r", "o", "j", "e", "c", "t", " ", "p", "a", "t", "h", ":", " ">>
      [] s = "Directory does not exist: " ->
           <<"D", "i", "r", "e", "c", "t", "o", "r", "y", " ", "d", "o", "e", "s", " ", "n", "o", "t", " ", "e", "x", "i", "s", "t", ":", " ">>
      [] s = "Path exists but is not a directory: " ->
           <<"P", "a", "t", "h", " ", "e", "x", "i", "s", "t", "s", " ", "b", "u", "t", " ", "i", "s", " ", "n", "o", "t", " ", "a", " ", "d", "i", "r", "e", "c", "t", "o", "r", "y", ":", " ">>
      [] s = "Insufficient permissions for directory: " ->
           <<"I", "n", "s", "u", "f", "f", "i", "c", "i", "e", "n", "t", " ", "p", "e", "r", "m", "i", "s", "s", "i", "o", "n", "s", " ", "f", "o", "r", " ", "d", "i", "r", "e", "c", "t", "o", "r", "y", ":", " ">>
      [] s = "An unknown error occurred" ->
           <<"A", "n", " ", "u", "n", "k", "n", "o", "w", "n", " ", "e", "r", "r", "o", "r", " ", "o", "c", "c", "u", "r", "r", "e", "d">>
      [] s = "\"" ->
           <<"\"">>]
\* ---- end of string table ----

RECURSIVE Flat(_)
\* The characters of a rope: the concatenation of its atoms.
Flat(rope) == IF rope = <<>> THEN <<>> ELSE Chars[Head(rope)] \o Flat(Tail(rope))

UpperCase ==
  <<"A", "B", "C", "D", "E", "F", "G", "H", "I", "J", "K", "L", "M",
    "N", "O", "P", "Q", "R", "S", "T", "U", "V", "W", "X", "Y", "Z">>

LowerCase ==
  <<"a", "b", "c", "d", "e", "f", "g", "h", "i", "j", "k", "l", "m",
    "n", "o", "p", "q", "r", "s", "t", "u", "v", "w", "x", "y", "z">>

\* String.prototype.toLowerCase on a character sequence.
ToLowerCase(cs) ==
  [i \in DOMAIN cs |->
     IF \E k \in DOMAIN UpperCase : UpperCase[k] = cs[i]
     THEN LowerCase[CHOOSE k \in DOMAIN UpperCase : UpperCase[k] = cs[i]]
     ELSE cs[i]]

\* String.prototype.includes: needle occurs in cs as a contiguous run.
Includes(cs, needle) ==
  \E i \in 1..(Len(cs) - Len(needle) + 1) :
     SubSeq(cs, i, i + Len(needle) - 1) = needle

\* JSON.stringify of a string value: the text between double quotes.
JsonStringify(atom) == Chars["\""] \o Chars[atom] \o Chars["\""]

\* s.trim() === '' : every character of s is white space.
\* The test that finds no string blank.
TrimIsEmptyNever(atom) == atom # atom

TrimIsEmpty(atom) == \A i \in DOMAIN Chars[atom] : Chars[atom][i] = " "

RECURSIVE TrimLeft(_)
TrimLeft(cs) == IF cs # <<>> /\ Head(cs) = " " THEN TrimLeft(Tail(cs)) ELSE cs

RECURSIVE TrimRight(_)
TrimRight(cs) ==
  IF cs # <<>> /\ cs[Len(cs)] = " " THEN TrimRight(SubSeq(cs, 1, Len(cs) - 1)) ELSE cs

\* String.prototype.trim, as the atom that has the trimmed characters.
Trim(atom) == CHOOSE a \in Atoms : Chars[a] = TrimRight(TrimLeft(Chars[atom]))

\* ------------------------------------------------------------------ errors
\* A thrown value: isError is "instanceof Error", message is a rope.
ErrorOf(name, message) == [isError |-> TRUE, name |-> name, message |-> message]

\* new NodeOperationError(node, message, {itemIndex, description})
NodeOperationError(message) == ErrorOf("NodeOperationError", message)

\* What an agent stream can throw: Error objects of the SDK and of the runtime,
\* the AbortError of an aborted controller, and a value that is no Error.
PlainStreamErrors ==
  { ErrorOf("Error", <<m>>) :
      m \in {"Invalid CWD", "chdir failed", "Working directory missing",
             "ENOENT: no such file or directory", "rate limit exceeded"} }
    \cup { [isError |-> FALSE, name |-> "", message |-> <<"chdir failed">>] }

AbortErrors ==
  { ErrorOf("AbortError", <<m>>) : m \in {"Operation aborted", "aborted, cwd unavailable"} }

\* ------------------------------------------------------------------ events
\* SDKMessage.  att is the attempt (1 first, 2 fallback) whose stream yielded
\* the event; content is the list of content parts of an assistant event.
TextPart(text) == [type |-> "text", text |-> text, name |-> "", plan |-> None]
ToolUsePart(name, plan) == [type |-> "tool_use", text |-> "", name |-> name, plan |-> plan]

\* The token usage a result event reports.
TokenUsage == [input_tokens |-> 3, output_tokens |-> 4]

SdkMessage(type, subtype, content, result, error, duration, cost, att) ==
  [type |-> type, subtype |-> subtype, content |-> content, result |-> result,
   error |-> error, duration_ms |-> duration, total_cost_usd |-> cost,
   num_turns |-> 1, usage |-> IF type = "result" THEN Some(TokenUsage) ELSE None,
   att |-> att]

SystemInit(att) == SdkMessage("system", "init", <<>>, None, None, None, None, att)
AssistantText(att) ==
  SdkMessage("assistant", "", <<TextPart("fix")>>, None, None, None, None, att)
ResultSuccess(att) ==
  SdkMessage("result", "success", <<>>, Some("fix"), None, Some(120), Some(2), att)
ResultError(payload, att) ==
  SdkMessage("result", "error_during_execution", <<>>, None, Some(payload),
             Some(120), Some(2), att)

\* The events a stream of attempt att can yield.
StreamEvents(att) ==
  { SystemInit(att), AssistantText(att), ResultSuccess(att),
    ResultError("Cannot access CWD", att), ResultError("max turns reached", att) }

\* -------------------------------------------------------------- parameters
\* timeout in seconds, the node's default.
DefaultTimeout == 300

\* The planning instructions appended to the system prompt in plan mode.
PlanningPrompt == "You are in plan mode. ... create a comprehensive plan before any implementation begins."

\* The parameters getNodeParameter reads for one item.
ItemParams(operation, prompt, projectPath, outputFormat, allowedTools, systemPrompt) ==
  [operation |-> operation, prompt |-> prompt, model |-> "sonnet", maxTurns |-> 5,
   timeout |-> DefaultTimeout, projectPath |-> projectPath,
   outputFormat |-> outputFormat, enablePlanMode |-> FALSE,
   autoExecuteAfterPlan |-> FALSE, allowedTools |-> allowedTools,
   systemPrompt |-> systemPrompt, requirePermissions |-> FALSE, debug |-> FALSE]

OutputFormats == {"structured", "messages", "text"}

\* The items a batch is drawn from: every prompt, project path and output
\* format of a plain query, and one plan request with tools and a system prompt.
ItemInputs ==
  { ItemParams("query", prompt, projectPath, outputFormat, <<>>, "") :
      prompt \in {"", "  ", "fix"}, projectPath \in {"", "/p"},
      outputFormat \in OutputFormats }
    \cup { ItemParams("plan", "fix", "/p", "structured",
                      <<"Read", "Write", "ExitPlanMode">>, "be brief") }

\* ---------------------------------------------------------- path validator
ConfigKeys == {"claudeSettings", "claudeLocalSettings", "mcpConfig"}

\* What the filesystem holds at a path: fs.stat succeeds (exists), the entry is
\* a directory, fs.access(R_OK | W_OK) succeeds, and which configuration files
\* are readable under it.
FsStates ==
  [exists : BOOLEAN, isDirectory : BOOLEAN, access : BOOLEAN,
   config : [ConfigKeys -> BOOLEAN]]

\* path.resolve of an absolute, normalised path is the path itself.
PathResolve(projectPath) == projectPath

NoConfigWarning == "No Claude configuration files found"
NoSettingsWarning == "No Claude settings files found"

\* The warnings that are added only when nothing at all was found.
WarningsWhenNothingFound(configurationFound) ==
  IF Cardinality({k \in DOMAIN configurationFound : configurationFound[k]}) = 0
  THEN <<NoConfigWarning>>
  ELSE <<>>

\* Lines 367-380: the warnings added for the configuration files found.
Warnings(configurationFound) ==
  LET foundConfigs ==
        Cardinality({k \in DOMAIN configurationFound : configurationFound[k]})
  IN  IF foundConfigs = 0 THEN <<NoConfigWarning>>
      ELSE IF /\ ~configurationFound["claudeSettings"]
              /\ ~configurationFound["claudeLocalSettings"]
           THEN <<NoSettingsWarning>>
           ELSE <<>>

\* The whole call, when every probe of it meets the filesystem state fs.
ValidateProjectPath(projectPath, fs) ==
  LET resolvedPath == PathResolve(projectPath)
      result == [isValid |-> FALSE, resolvedPath |-> Some(resolvedPath),
                 error |-> None, warnings |-> <<>>,
                 configurationFound |-> [k \in {} |-> FALSE]]
  IN  IF ~fs.exists
      THEN [result EXCEPT !.error = Some(<<"Directory does not exist: ", resolvedPath>>)]
      ELSE IF ~fs.isDirectory
      THEN [result EXCEPT
              !.error = Some(<<"Path exists but is not a directory: ", resolvedPath>>)]
      ELSE IF ~fs.access
      THEN [result EXCEPT
              !.error = Some(<<"Insufficient permissions for directory: ", resolvedPath>>)]
      ELSE [result EXCEPT
              !.isValid = TRUE,
              !.configurationFound = fs.config,
              !.warnings = Warnings(fs.config)]

\* ---------------------------------------------------- environment preparer
\* Plan mode taken from the operation alone.
IsPlanOperation(item) == item.operation = "plan"

\* Line 431: isPlanMode.
IsPlanMode(item) ==
  item.operation = "plan" \/ (item.operation = "query" /\ item.enablePlanMode)

\* The system prompt that puts the planning instructions first.
SystemPromptPlanningFirst(item) ==
  LET user == IF item.systemPrompt = "" THEN <<>> ELSE <<item.systemPrompt>>
  IN  IF IsPlanMode(item)
      THEN IF user # <<>> THEN <<PlanningPrompt, "\n\n">> \o user ELSE <<PlanningPrompt>>
      ELSE user

\* The system prompt as a rope; the empty rope is the empty string.
SystemPromptOf(item) ==
  LET user == IF item.systemPrompt = "" THEN <<>> ELSE <<item.systemPrompt>>
  IN  IF IsPlanMode(item)
      THEN IF user # <<>> THEN user \o <<"\n\n", PlanningPrompt>> ELSE <<PlanningPrompt>>
      ELSE user

ReadOnlyTools ==
  {"Read", "Grep", "Glob", "LS", "Task", "WebFetch", "WebSearch", "TodoWrite"}

SeqIncludes(seq, x) == \E i \in DOMAIN seq : seq[i] = x

\* The filter that keeps every requested tool.
KeepEveryTool(tool) == tool = tool

KeepInPlanMode(tool) ==
  tool \in ReadOnlyTools \/ tool = "exit_plan_mode" \/ tool = "ExitPlanMode"

PlanModeTools(allowedTools) ==
  LET filtered == SelectSeq(allowedTools, KeepInPlanMode)
  IN  IF ~SeqIncludes(filtered, "exit_plan_mode")
      THEN Append(filtered, "exit_plan_mode")
      ELSE filtered

EffectiveAllowedTools(item) ==
  IF IsPlanMode(item) THEN PlanModeTools(item.allowedTools) ELSE item.allowedTools

\* queryOptions as execute() builds it; cwd is None or the validated path,
\* abortController names the controller the request carries.
QueryOptionsOf(item, cwd, controller) ==
  [prompt |-> item.prompt,
   abortController |-> controller,
   cwd |-> cwd,
   options |->
     [maxTurns |-> item.maxTurns,
      permissionMode |-> IF item.requirePermissions THEN "default" ELSE "bypassPermissions",
      model |-> item.model,
      systemPrompt |-> IF SystemPromptOf(item) # <<>> THEN Some(SystemPromptOf(item)) ELSE None,
      allowedTools |-> IF Len(EffectiveAllowedTools(item)) > 0
                       THEN Some(EffectiveAllowedTools(item)) ELSE None,
      continue |-> IF item.operation = "continue" THEN Some(TRUE) ELSE None]]

\* The copy that keeps the first attempt's controller.
FallbackOptionsSharingController(queryOptions, controller) ==
  [queryOptions EXCEPT !.cwd = None]

\* The copy that keeps cwd.
FallbackOptionsKeepingCwd(queryOptions, controller) ==
  [queryOptions EXCEPT !.abortController = controller]

\* { ...queryOptions } without cwd and with the fallback's controller.
FallbackOptionsOf(queryOptions, controller) ==
  [queryOptions EXCEPT !.cwd = None, !.abortController = controller]

\* ------------------------------------------------------ response normaliser
\* a || b on optional strings: the first that is defined and not empty.
OrElse(a, b) == IF IsSome(a) /\ Val(a) # "" THEN a ELSE b

\* The search that returns the last result event of the sequence.
TerminalResultMessage(messages) ==
  IF \E i \in DOMAIN messages : messages[i].type = "result"
  THEN Some(messages[CHOOSE i \in DOMAIN messages :
                /\ messages[i].type = "result"
                /\ \A j \in (i + 1)..Len(messages) : messages[j].type # "result"])
  ELSE None

\* messages.find(m => m.type === 'result'): the first result event, if any.
ResultMessage(messages) ==
  IF \E i \in DOMAIN messages : messages[i].type = "result"
  THEN Some(messages[CHOOSE i \in DOMAIN messages :
                /\ messages[i].type = "result"
                /\ \A j \in 1..(i - 1) : messages[j].type # "result"])
  ELSE None

IsAssistant(m) == m.type = "assistant"
IsUser(m) == m.type = "user"
IsToolUse(m) == m.type = "assistant" /\ Len(m.content) > 0 /\ m.content[1].type = "tool_use"

\* The test that takes any content part of an assistant event for content.
HasAnyAssistantPart(messages) ==
  \E i \in DOMAIN messages :
     messages[i].type = "assistant" /\ Len(messages[i].content) > 0

HasAssistantContent(messages) ==
  \E i \in DOMAIN messages :
     /\ messages[i].type = "assistant"
     /\ Len(messages[i].content) > 0
     /\ \E k \in DOMAIN messages[i].content :
           /\ messages[i].content[k].type = "text"
           /\ ~TrimIsEmpty(messages[i].content[k].text)

\* The histogram of message types of the diagnostics.
MessageTypes(messages) ==
  [ty \in {messages[i].type : i \in DOMAIN messages} |->
     Cardinality({i \in DOMAIN messages : messages[i].type = ty})]

NoMessagesWarning == "Claude Code SDK returned no messages."
NoMeaningfulWarning == "Claude Code executed but produced no meaningful response."

\* The payload pushed when the stream yielded nothing at all.
NoMessagesJson(queryOptions, duration) ==
  [warning |-> NoMessagesWarning, messages |-> <<>>, messageCount |-> 0,
   duration_ms |-> duration,
   diagnostics |-> [hasSystemPrompt |-> IsSome(queryOptions.options.systemPrompt),
                    hasCwd |-> IsSome(queryOptions.cwd)],
   success |-> FALSE]

\* The payload pushed when there is neither assistant text nor a result event.
NoMeaningfulJson(messages, queryOptions, duration) ==
  [warning |-> NoMeaningfulWarning, messages |-> messages,
   messageCount |-> Len(messages), duration_ms |-> duration,
   diagnostics |-> [messageTypes |-> MessageTypes(messages),
                    hasAssistantMessages |-> Len(SelectSeq(messages, IsAssistant)) > 0,
                    hasResultMessage |-> IsSome(ResultMessage(messages)),
                    hasSystemPrompt |-> IsSome(queryOptions.options.systemPrompt),
                    hasCwd |-> IsSome(queryOptions.cwd)],
   success |-> FALSE]

\* The text payload whose success is true unless a result event says otherwise.
TextJsonSuccessUnlessError(messages, duration) ==
  LET rm == ResultMessage(messages)
  IN  [result |-> IF IsSome(rm)
                  THEN LET r == OrElse(Val(rm).result, Val(rm).error)
                       IN  IF IsSome(r) THEN Val(r) ELSE ""
                  ELSE "",
       success |-> ~(IsSome(rm) /\ Val(rm).subtype # "success"),
       duration_ms |-> IF IsSome(rm) /\ IsSome(Val(rm).duration_ms)
                          /\ Val(Val(rm).duration_ms) # 0
                       THEN Val(Val(rm).duration_ms) ELSE duration,
       total_cost_usd |-> IF IsSome(rm) THEN Val(rm).total_cost_usd ELSE None]

\* Lines 789-799: the payload of the 'text' format.
TextJson(messages, duration) ==
  LET rm == ResultMessage(messages)
  IN  [result |-> IF IsSome(rm)
                  THEN LET r == OrElse(Val(rm).result, Val(rm).error)
                       IN  IF IsSome(r) THEN Val(r) ELSE ""
                  ELSE "",
       success |-> IsSome(rm) /\ Val(rm).subtype = "success",
       duration_ms |-> IF IsSome(rm) /\ IsSome(Val(rm).duration_ms)
                          /\ Val(Val(rm).duration_ms) # 0
                       THEN Val(Val(rm).duration_ms) ELSE duration,
       total_cost_usd |-> IF IsSome(rm) THEN Val(rm).total_cost_usd ELSE None]

MessagesJson(messages) == [messages |-> messages, messageCount |-> Len(messages)]

\* toolUses.find(content[0].name === 'ExitPlanMode'), then its input.plan.
PlanContent(messages) ==
  LET toolUses == SelectSeq(messages, IsToolUse)
  IN  IF \E i \in DOMAIN toolUses : toolUses[i].content[1].name = "ExitPlanMode"
      THEN toolUses[CHOOSE i \in DOMAIN toolUses :
              /\ toolUses[i].content[1].name = "ExitPlanMode"
              /\ \A j \in 1..(i - 1) : toolUses[j].content[1].name # "ExitPlanMode"
           ].content[1].plan
      ELSE None

StructuredJson(messages, item, duration) ==
  LET rm == ResultMessage(messages)
      planContent == PlanContent(messages)
      hasPlan == IsSome(planContent) /\ Val(planContent) # ""
  IN  [messages |-> messages,
       summary |->
         [userMessageCount |-> Len(SelectSeq(messages, IsUser)),
          assistantMessageCount |-> Len(SelectSeq(messages, IsAssistant)),
          toolUseCount |-> Len(SelectSeq(messages, IsToolUse)),
          hasResult |-> IsSome(rm),
          isPlanMode |-> IsPlanMode(item),
          hasPlan |-> hasPlan,
          autoExecuteAfterPlan |-> item.autoExecuteAfterPlan,
          hasAssistantContent |-> HasAssistantContent(messages)],
       plan |-> IF hasPlan THEN planContent ELSE None,
       planApproved |-> FALSE,
       readyForExecution |-> IsPlanMode(item) /\ item.autoExecuteAfterPlan /\ hasPlan,
       result |-> IF IsSome(rm) THEN OrElse(Val(rm).result, Val(rm).error) ELSE None,
       metrics |->
         IF IsSome(rm)
         THEN Some([duration_ms |-> Val(rm).duration_ms,
                    num_turns |-> Some(Val(rm).num_turns),
                    total_cost_usd |-> Val(rm).total_cost_usd,
                    usage |-> Val(rm).usage])
         ELSE Some([duration_ms |-> Some(duration), num_turns |-> Some(Len(messages)),
                    total_cost_usd |-> Some(0), usage |-> None]),
       success |-> IsSome(rm) /\ Val(rm).subtype = "success"]

\* What the code after the first stream's loop pushes (lines 690-880): the
\* empty sequence when the output format is none of the three.
NormalizedOutcomes(messages, item, queryOptions, duration, itemIndex) ==
  IF Len(messages) = 0
  THEN <<[json |-> NoMessagesJson(queryOptions, duration), pairedItem |-> itemIndex]>>
  ELSE IF ~HasAssistantContent(messages) /\ ~IsSome(ResultMessage(messages))
  THEN <<[json |-> NoMeaningfulJson(messages, queryOptions, duration),
          pairedItem |-> itemIndex]>>
  ELSE IF item.outputFormat = "text"
  THEN <<[json |-> TextJson(messages, duration), pairedItem |-> itemIndex]>>
  ELSE IF item.outputFormat = "messages"
  THEN <<[json |-> MessagesJson(messages), pairedItem |-> itemIndex]>>
  ELSE IF item.outputFormat = "structured"
  THEN <<[json |-> StructuredJson(messages, item, duration), pairedItem |-> itemIndex]>>
  ELSE <<>>

\* --------------------------------------------------- failure classification
\* The test that does not ask whether the request has a cwd.
IsWorkingDirResultOfAnyRequest(message, originalCwd) ==
  /\ message.type = "result"
  /\ IsSome(message.error) /\ Val(message.error) # ""
  /\ LET errorStr == ToLowerCase(JsonStringify(Val(message.error)))
     IN  \/ Includes(errorStr, Chars["working directory"])
         \/ Includes(errorStr, Chars["cwd"])
         \/ Includes(errorStr, Chars["chdir"])

\* A result event with an error payload whose JSON text names the working
\* directory, on a request that has a cwd (lines 658-664).
IsWorkingDirResult(message, originalCwd) ==
  /\ message.type = "result"
  /\ IsSome(message.error) /\ Val(message.error) # ""
  /\ IsSome(originalCwd)
  /\ LET errorStr == ToLowerCase(JsonStringify(Val(message.error)))
     IN  \/ Includes(errorStr, Chars["working directory"])
         \/ Includes(errorStr, Chars["cwd"])
         \/ Includes(errorStr, Chars["chdir"])

\* isWorkingDirError without the 'no such file or directory' test.
IsWorkingDirErrorOfThree(queryError) ==
  /\ queryError.isError
  /\ LET lower == ToLowerCase(Flat(queryError.message))
     IN  \/ Includes(lower, Chars["working directory"])
         \/ Includes(lower, Chars["cwd"])
         \/ Includes(lower, Chars["chdir"])

\* isWorkingDirError that takes every Error for a working-directory error.
IsWorkingDirErrorOfAny(queryError) == queryError.isError

\* isWorkingDirError of the catch block (lines 885-890).
IsWorkingDirError(queryError) ==
  /\ queryError.isError
  /\ LET lower == ToLowerCase(Flat(queryError.message))
     IN  \/ Includes(lower, Chars["working directory"])
         \/ Includes(lower, Chars["cwd"])
         \/ Includes(lower, Chars["chdir"])
         \/ Includes(lower, Chars["no such file or directory"])

ErrorMessage(error) == IF error.isError THEN error.message ELSE <<"An unknown error occurred">>

IsTimeout(error) == error.isError /\ error.name = "AbortError"

IsPlanModeError(error) ==
  \/ Includes(Flat(ErrorMessage(error)), Chars["plan mode"])
  \/ Includes(Flat(ErrorMessage(error)), Chars["ExitPlanMode"])

ErrorType(error) ==
  IF IsTimeout(error) THEN "timeout"
  ELSE IF IsPlanModeError(error) THEN "plan_mode_error"
  ELSE "execution_error"

\* The error outcome that is always paired with the first item.
ErrorOutcomePairedWithFirst(error, item, itemIndex) ==
  [json |-> [error |-> ErrorMessage(error), errorType |-> ErrorType(error),
             itemIndex |-> itemIndex, isPlanMode |-> IsPlanMode(item)],
   pairedItem |-> 0]

\* The error-shaped outcome of the outer catch under continue-on-fail.
ErrorOutcome(error, item, itemIndex) ==
  [json |-> [error |-> ErrorMessage(error), errorType |-> ErrorType(error),
             itemIndex |-> itemIndex, isPlanMode |-> IsPlanMode(item)],
   pairedItem |-> itemIndex]

\* The NodeOperationError execute() throws when continue-on-fail is off; its
\* description is the underlying error message.
UserFriendlyError(error, item) ==
  [isError |-> TRUE, name |-> "NodeOperationError",
   message |->
     IF IsTimeout(error)
     THEN <<"Operation timed out after ", ToString(item.timeout),
            " seconds. Consider increasing the timeout in Additional Options.">>
     ELSE IF IsPlanModeError(error)
     THEN <<"Plan mode execution failed: ">> \o ErrorMessage(error)
            \o <<". This may be due to known SDK issues with plan mode. Try using regular Query mode instead.">>
     ELSE <<"Claude Code execution failed: ">> \o ErrorMessage(error),
   description |-> ErrorMessage(error)]

\* ------------------------------------------------------------------- state
VARIABLES
  nItems,          \* items.length of the batch
  continueOnFail,  \* this.continueOnFail()
  pc,              \* where execute() is: "loop" (head of the item loop),
                   \* "pathValidation", "streaming", "fallback" (suspended),
                   \* "returned", "threw" (finished); "prepare" (SpecPrepare
                   \* only: the parameters are read, no request is built)
  itemIndex,       \* the loop counter
  item,            \* the parameters read for the current item
  queryOptions,    \* queryOptions of the current item, None until built
  messages,        \* the collected events of the current item
  querySucceeded,
  queryError,      \* the error caught from the first stream, None if none
  fallbackError,   \* the error caught from the fallback stream, None if none
  returnData,      \* the outcomes pushed so far
  thrown,          \* the error execute() threw, None if none
  armed,           \* the timers set and neither cleared nor run
  aborted,         \* the AbortControllers whose abort() was called
  requests,        \* the requests passed to query() for the current item
  open             \* the agent streams opened and not yet closed

\* The state of one call of validateProjectPath and of the directory it looks at.
VARIABLES
  filesystem,      \* what the filesystem holds at the resolved path
  validatorPc,     \* where validateProjectPath is: "idle", "stat", "access",
                   \* "config" (suspended in an fs call) or "returned"
  result,          \* the result object the call fills in
  pending,         \* the configChecks entries not probed yet
  undisturbed,     \* the filesystem did not change since the call began
  lastResult       \* what the call before returned, None if there was none
                   \* or the filesystem changed since it began

validatorVars == <<filesystem, validatorPc, result, pending, undisturbed, lastResult>>

\* The locals of one call of executeInteractivePlanningLoop; the call keeps
\* its position in pc ("planning", "phase1", "phase2", "phase3", "planned",
\* "planningThrew"), allMessages in messages, the requests it passed to
\* query() in requests, its streams in open and what it threw in thrown.
VARIABLES
  currentPlan,      \* '' until a plan was presented
  currentIteration,
  planApproved,
  executed

planningVars == <<currentPlan, currentIteration, planApproved, executed>>

\* The working directory of the process, and the locals with which execute()
\* of src/unnamed/part_001 changes and restores it around the agent call.
VARIABLES
  processCwd,              \* process.cwd()
  originalCwd,             \* process.cwd() read before the call
  workingDirectoryChanged

chdirVars == <<processCwd, originalCwd, workingDirectoryChanged>>

vars ==
  <<nItems, continueOnFail, pc, itemIndex, item, queryOptions, messages,
    querySucceeded, queryError, fallbackError, returnData, thrown, armed, aborted,
    requests, open, validatorVars, planningVars, chdirVars>>

\* The timer and controller of the first attempt of item i, and of its fallback.
FirstId(i) == <<i, "first">>
FallbackId(i) == <<i, "fallback">>

\* Date.now() - startTime, in milliseconds.
ElapsedMs == {7}

\* What checkClaudeCLI can report.
CliResults ==
  { [isAvailable |-> TRUE, isAuthenticated |-> TRUE, error |-> None],
    [isAvailable |-> TRUE, isAuthenticated |-> FALSE,
     error |-> Some("Claude CLI is installed but not authenticated. Run \"claude auth login\" to authenticate.")],
    [isAvailable |-> FALSE, isAuthenticated |-> FALSE,
     error |-> Some("Claude CLI is not installed or not accessible. Install with: npm install -g @anthropic-ai/claude-code")] }

\* The result object validateProjectPath starts from (lines 309-318).
NewResult(projectPath) ==
  [isValid |-> FALSE, resolvedPath |-> Some(PathResolve(projectPath)),
   error |-> None, warnings |-> <<>>, configurationFound |-> [k \in {} |-> FALSE]]

\* No call of validateProjectPath is in progress.  execute() awaits the whole
\* call as one step and meets whatever the filesystem holds at that time, so
\* the batch leaves these variables alone.
\* No call of executeInteractivePlanningLoop is in progress.
PlanningAtRest ==
  /\ currentPlan = ""
  /\ currentIteration = 0
  /\ planApproved = FALSE
  /\ executed = FALSE

\* The directory the process was started in.
StartDirectory == "/srv/n8n"

\* The process is in the directory it was started in and no call is between
\* its chdir and its restore.
ChdirAtRest ==
  /\ processCwd = StartDirectory
  /\ originalCwd = StartDirectory
  /\ workingDirectoryChanged = FALSE

ValidatorAtRest ==
  /\ filesystem = [exists |-> FALSE, isDirectory |-> FALSE, access |-> FALSE,
                   config |-> [k \in ConfigKeys |-> FALSE]]
  /\ validatorPc = "idle"
  /\ result = NewResult("")
  /\ pending = <<>>
  /\ undisturbed = TRUE
  /\ lastResult = None

\* The locals of the loop body before the first item is read.
NoItem == ItemParams("query", "", "", "text", <<>>, "")

Init ==
  /\ nItems \in 0..MaxItems
  /\ continueOnFail \in BOOLEAN
  /\ pc = "loop"
  /\ itemIndex = 0
  /\ item = NoItem
  /\ queryOptions = None
  /\ messages = <<>>
  /\ querySucceeded = FALSE
  /\ queryError = None
  /\ fallbackError = None
  /\ returnData = <<>>
  /\ thrown = None
  /\ armed = {}
  /\ aborted = {}
  /\ requests = <<>>
  /\ open = {}
  /\ ValidatorAtRest
  /\ PlanningAtRest
  /\ ChdirAtRest

\* The locals of the loop body go out of scope when the body is left; the
\* controllers of the item are then unreachable.
ForgetLocals ==
  /\ item' = NoItem
  /\ messages' = <<>>
  /\ queryOptions' = None
  /\ querySucceeded' = FALSE
  /\ aborted' = {}

\* The outer catch that rethrows whatever continueOnFail() says.
OuterCatchRethrowing(error, it) ==
  /\ thrown' = Some(UserFriendlyError(error, it))
  /\ pc' = "threw"
  /\ UNCHANGED <<returnData, itemIndex>>
  /\ ForgetLocals

\* The outer catch (lines 964-1005) for the item it: an error-shaped outcome
\* and the next item, or execute() throws.
OuterCatch(error, it) ==
  /\ IF continueOnFail
     THEN /\ pc' = "loop"
          /\ itemIndex' = itemIndex + 1
          /\ thrown' = thrown
          /\ returnData' = Append(returnData, ErrorOutcome(error, it, itemIndex))
     ELSE /\ pc' = "threw"
          /\ UNCHANGED <<returnData, itemIndex>>
          /\ thrown' = Some(UserFriendlyError(error, it))
  /\ ForgetLocals

\* The loop body ends (or continues) after pushing outcomes.
NextItem(outcomes) ==
  /\ returnData' = returnData \o outcomes
  /\ itemIndex' = itemIndex + 1
  /\ pc' = "loop"
  /\ thrown' = thrown
  /\ ForgetLocals

\* query(queryOptions) and the first iteration step of for await (line 638).
StartFirstAttempt(it, cwd) ==
  LET qo == QueryOptionsOf(it, cwd, FirstId(itemIndex))
  IN  /\ item' = it
      /\ queryOptions' = Some(qo)
      /\ requests' = <<qo>>
      /\ open' = open \cup {FirstId(itemIndex)}
      /\ pc' = "streaming"
      /\ UNCHANGED <<returnData, itemIndex, thrown, messages, querySucceeded, aborted>>

\* Lines 394-531 and, without a project path, 573-638, for the parameters it
\* and the CLI check cliCheck: arm the timer, validate the prompt, check the
\* CLI, build the request.
BeginItemWith(it, cliCheck) ==
  /\ pc = "loop"
  /\ itemIndex < nItems
  /\ armed' = armed \cup {FirstId(itemIndex)}
  /\ queryError' = None
  /\ fallbackError' = None
  /\ IF it.prompt = "" \/ TrimIsEmpty(it.prompt)
     THEN /\ OuterCatch(NodeOperationError(<<"Prompt is required and cannot be empty">>), it)
          /\ requests' = <<>> /\ open' = open
     ELSE IF ~cliCheck.isAvailable \/ ~cliCheck.isAuthenticated
     THEN /\ OuterCatch(NodeOperationError(<<Val(cliCheck.error)>>), it)
          /\ requests' = <<>> /\ open' = open
     ELSE IF it.projectPath # "" /\ ~TrimIsEmpty(it.projectPath)
     THEN /\ pc' = "pathValidation"
          /\ item' = it
          /\ requests' = <<>> /\ open' = open
          /\ UNCHANGED <<returnData, itemIndex, thrown, messages, queryOptions,
                         querySucceeded, aborted>>
     ELSE StartFirstAttempt(it, None)
  /\ UNCHANGED <<validatorVars, planningVars, chdirVars, nItems, continueOnFail>>

\* The head of the item loop reads the parameters of the next item.
BeginItem == \E it \in ItemInputs, cliCheck \in CliResults : BeginItemWith(it, cliCheck)

\* The path validation that lets every path through.
PathValidatedUnchecked(fs) ==
  /\ pc = "pathValidation"
  /\ StartFirstAttempt(item, ValidateProjectPath(Trim(item.projectPath), fs).resolvedPath)
  /\ UNCHANGED <<validatorVars, planningVars, chdirVars, nItems, continueOnFail, queryError, fallbackError, armed>>

\* Lines 532-638, when validateProjectPath met the filesystem state fs: an
\* invalid path throws, a valid one becomes queryOptions.cwd and the first
\* request is issued.
PathValidatedOn(fs) ==
  /\ pc = "pathValidation"
  /\ LET pathValidation == ValidateProjectPath(Trim(item.projectPath), fs)
     IN  IF ~pathValidation.isValid
         THEN /\ OuterCatch(NodeOperationError(
                   <<"Invalid project path: ">> \o Val(pathValidation.error)), item)
              /\ UNCHANGED <<requests, open>>
         ELSE StartFirstAttempt(item, pathValidation.resolvedPath)
  /\ UNCHANGED <<validatorVars, planningVars, chdirVars, nItems, continueOnFail, queryError, fallbackError, armed>>

\* validateProjectPath resolves.
PathValidated == \E fs \in FsStates : PathValidatedOn(fs)

\* The end of the first loop that leaves its stream as it is.
AfterFirstLoopHoldingStream(collected) ==
  /\ armed' = armed \ {FirstId(itemIndex)}
  /\ open' = open
  /\ \E duration \in ElapsedMs :
       NextItem(NormalizedOutcomes(collected, item, Val(queryOptions), duration, itemIndex))

\* Lines 675-880 and 954-963: the first stream's loop was left without an
\* error; the timer is cleared and the collected events are normalised.
AfterFirstLoop(collected) ==
  /\ armed' = armed \ {FirstId(itemIndex)}
  /\ open' = open \ {FirstId(itemIndex)}
  /\ \E duration \in ElapsedMs :
       NextItem(NormalizedOutcomes(collected, item, Val(queryOptions), duration, itemIndex))

\* Lines 638-673: the first stream yields an event; a result event with a
\* working-directory error on a request with a cwd breaks out of the loop.
FirstMessageYields(message, most) ==
  /\ pc = "streaming"
  /\ Len(messages) < most
  /\ IF IsWorkingDirResult(message, Val(queryOptions).cwd)
     THEN AfterFirstLoop(Append(messages, message))
     ELSE /\ messages' = Append(messages, message)
          /\ UNCHANGED <<item, queryOptions, querySucceeded, aborted, armed, open,
                         returnData, itemIndex, pc, thrown>>
  /\ UNCHANGED <<validatorVars, planningVars, chdirVars, nItems, continueOnFail, queryError, fallbackError, requests>>

FirstMessage == \E message \in StreamEvents(1) : FirstMessageYields(message, MaxEvents)

\* The first stream ends.
FirstStreamEnd ==
  /\ pc = "streaming"
  /\ AfterFirstLoop(messages)
  /\ UNCHANGED <<validatorVars, planningVars, chdirVars, nItems, continueOnFail, queryError, fallbackError, requests>>

\* What the stream of a request carrying the controller id can throw now: an
\* AbortError only once that controller was aborted.
StreamErrors(id) == PlainStreamErrors \cup (IF id \in aborted THEN AbortErrors ELSE {})

\* The catch that issues the fallback request while the first stream is held.
FirstStreamThrowHoldingStream ==
  /\ pc = "streaming"
  /\ \E error \in StreamErrors(requests[1].abortController) :
       /\ queryError' = Some(error)
       /\ IF IsWorkingDirError(error) /\ IsSome(Val(queryOptions).cwd) /\ ~querySucceeded
          THEN /\ armed' = (armed \ {FirstId(itemIndex)}) \cup {FallbackId(itemIndex)}
               /\ messages' = <<>>
               /\ requests' = Append(requests,
                                FallbackOptionsOf(Val(queryOptions), FallbackId(itemIndex)))
               /\ open' = open \cup {FallbackId(itemIndex)}
               /\ pc' = "fallback"
               /\ UNCHANGED <<returnData, itemIndex, thrown, item, queryOptions,
                              querySucceeded, aborted>>
          ELSE /\ armed' = armed \ {FirstId(itemIndex)}
               /\ open' = open \ {FirstId(itemIndex)}
               /\ OuterCatch(error, item)
               /\ UNCHANGED requests
  /\ UNCHANGED <<validatorVars, planningVars, chdirVars, nItems, continueOnFail, fallbackError>>

\* Lines 881-952: the first stream throws.  A working-directory error on a
\* request with a cwd starts the fallback (new controller and timer, messages
\* emptied, the request without cwd); any other error goes to the outer catch.
FirstStreamThrow ==
  /\ pc = "streaming"
  /\ \E error \in StreamErrors(requests[1].abortController) :
       /\ queryError' = Some(error)
       /\ IF IsWorkingDirError(error) /\ IsSome(Val(queryOptions).cwd) /\ ~querySucceeded
          THEN /\ armed' = (armed \ {FirstId(itemIndex)}) \cup {FallbackId(itemIndex)}
               /\ messages' = <<>>
               /\ requests' = Append(requests,
                                FallbackOptionsOf(Val(queryOptions), FallbackId(itemIndex)))
               /\ open' = (open \ {FirstId(itemIndex)}) \cup {FallbackId(itemIndex)}
               /\ pc' = "fallback"
               /\ UNCHANGED <<returnData, itemIndex, thrown, item, queryOptions,
                              querySucceeded, aborted>>
          ELSE /\ armed' = armed \ {FirstId(itemIndex)}
               /\ open' = open \ {FirstId(itemIndex)}
               /\ OuterCatch(error, item)
               /\ UNCHANGED requests
  /\ UNCHANGED <<validatorVars, planningVars, chdirVars, nItems, continueOnFail, fallbackError>>

\* Lines 920-926: the fallback stream yields an event.
FallbackMessage ==
  /\ pc = "fallback"
  /\ Len(messages) < MaxEvents
  /\ \E message \in StreamEvents(2) : messages' = Append(messages, message)
  /\ UNCHANGED <<validatorVars, planningVars, chdirVars, nItems, continueOnFail, pc, itemIndex, item, queryOptions,
                 querySucceeded, queryError, fallbackError, returnData, thrown, armed,
                 aborted, requests, open>>

\* Lines 928-939 and 954-963: the fallback stream ends; its timer is cleared,
\* querySucceeded is set, nothing is pushed and the loop body ends.
FallbackStreamEnd ==
  /\ pc = "fallback"
  /\ armed' = armed \ {FallbackId(itemIndex)}
  /\ open' = open \ {FallbackId(itemIndex)}
  /\ NextItem(<<>>)
  /\ UNCHANGED <<validatorVars, planningVars, chdirVars, nItems, continueOnFail, queryError, fallbackError, requests>>

\* The catch of the fallback that rethrows the fallback's own error.
FallbackStreamThrowOwnError ==
  /\ pc = "fallback"
  /\ \E error \in StreamErrors(requests[2].abortController) :
       /\ fallbackError' = Some(error)
       /\ armed' = armed \ {FallbackId(itemIndex)}
       /\ open' = open \ {FallbackId(itemIndex)}
       /\ OuterCatch(error, item)
  /\ UNCHANGED <<validatorVars, planningVars, chdirVars, nItems, continueOnFail, queryError, requests>>

\* Lines 940-948: the fallback stream throws; the first attempt's error is
\* rethrown to the outer catch.
FallbackStreamThrow ==
  /\ pc = "fallback"
  /\ \E error \in StreamErrors(requests[2].abortController) :
       /\ fallbackError' = Some(error)
       /\ armed' = armed \ {FallbackId(itemIndex)}
       /\ open' = open \ {FallbackId(itemIndex)}
       /\ OuterCatch(Val(queryError), item)
  /\ UNCHANGED <<validatorVars, planningVars, chdirVars, nItems, continueOnFail, queryError, requests>>

\* A timer callback runs (lines 421 and 904): it aborts its own controller.
\* Callbacks run only while execute() is suspended or has finished.
TimerFires ==
  /\ pc \in {"pathValidation", "streaming", "fallback", "returned", "threw"}
  /\ \E id \in armed :
       /\ armed' = armed \ {id}
       /\ aborted' = aborted \cup {id}
  /\ UNCHANGED <<validatorVars, planningVars, chdirVars, nItems, continueOnFail, pc, itemIndex, item, queryOptions, messages,
                 querySucceeded, queryError, fallbackError, returnData, thrown,
                 requests, open>>

\* Line 1008: the loop is over, execute() returns [returnData].
Return ==
  /\ pc = "loop"
  /\ itemIndex >= nItems
  /\ pc' = "returned"
  /\ UNCHANGED <<validatorVars, planningVars, chdirVars, nItems, continueOnFail, itemIndex, item, queryOptions, messages,
                 querySucceeded, queryError, fallbackError, returnData, thrown, armed,
                 aborted, requests, open>>

Next ==
  \/ BeginItem
  \/ PathValidated
  \/ FirstMessage
  \/ FirstStreamEnd
  \/ FirstStreamThrow
  \/ FallbackMessage
  \/ FallbackStreamEnd
  \/ FallbackStreamThrow
  \/ TimerFires
  \/ Return

Spec == Init /\ [][Next]_vars

\* ------------------------------------------------- the preparer on its own
\* The values of the allowedTools options (lines 182-196), and the second
\* spelling of the exit tool the filter of line 589 knows.
ToolNames ==
  {"Bash", "Edit", "exit_plan_mode", "Glob", "Grep", "LS", "MultiEdit", "NotebookEdit",
   "NotebookRead", "Read", "Task", "TodoWrite", "WebFetch", "WebSearch", "Write",
   "ExitPlanMode"}

\* The requested tool lists: allowedTools is a string[] an expression can set
\* to any list, repetitions included.
ToolLists == UNION {[1..n -> ToolNames] : n \in 0..MaxTools}

\* The parameters that decide the request: operation, enablePlanMode,
\* allowedTools and additionalOptions.requirePermissions; and, with no tools
\* requested, additionalOptions.systemPrompt.
PrepareInputs ==
  { [ItemParams(operation, "fix", "/p", "structured", allowedTools, "")
       EXCEPT !.enablePlanMode = enablePlanMode,
              !.requirePermissions = requirePermissions] :
      operation \in {"query", "plan", "continue"}, allowedTools \in ToolLists,
      enablePlanMode \in BOOLEAN, requirePermissions \in BOOLEAN }
    \cup
  { [ItemParams(operation, "fix", "/p", "structured", <<>>, "be brief")
       EXCEPT !.enablePlanMode = enablePlanMode] :
      operation \in {"query", "plan", "continue"}, enablePlanMode \in BOOLEAN }

\* The parameters of one item are read (lines 398-416); pc = "prepare" is the
\* point where the request is about to be built.
PrepareInit ==
  /\ nItems = 1
  /\ continueOnFail = FALSE
  /\ pc = "prepare"
  /\ itemIndex = 0
  /\ item \in PrepareInputs
  /\ queryOptions = None
  /\ messages = <<>>
  /\ querySucceeded = FALSE
  /\ queryError = None
  /\ fallbackError = None
  /\ returnData = <<>>
  /\ thrown = None
  /\ armed = {}
  /\ aborted = {}
  /\ requests = <<>>
  /\ open = {}
  /\ ValidatorAtRest
  /\ PlanningAtRest
  /\ ChdirAtRest

\* Lines 517-638: queryOptions is built, with the validated path as cwd or
\* without one, and passed to query().
PrepareFirst ==
  /\ pc = "prepare"
  /\ \E cwd \in {None, Some(PathResolve(item.projectPath))} :
       StartFirstAttempt(item, cwd)
  /\ UNCHANGED <<validatorVars, planningVars, chdirVars, nItems, continueOnFail, queryError, fallbackError, armed>>

\* Lines 908-920: fallbackOptions is built from queryOptions and passed to
\* query().
PrepareFallback ==
  /\ pc = "streaming"
  /\ IsSome(Val(queryOptions).cwd)
  /\ requests' = Append(requests,
                   FallbackOptionsOf(Val(queryOptions), FallbackId(itemIndex)))
  /\ pc' = "fallback"
  /\ UNCHANGED <<validatorVars, planningVars, chdirVars, nItems, continueOnFail, itemIndex, item, queryOptions,
                 messages, querySucceeded, queryError, fallbackError, returnData,
                 thrown, armed, aborted, open>>

PrepareNext ==
  \/ PrepareFirst
  \/ PrepareFallback

SpecPrepare == PrepareInit /\ [][PrepareNext]_vars

\* ================================================================== claims
\* The outcome pushed last, and what an outcome is shaped like.
LastOutcome == returnData[Len(returnData)]
IsErrorShaped(outcome) == "error" \in DOMAIN outcome.json
IsSuccessShaped(outcome) ==
  /\ "success" \in DOMAIN outcome.json
  /\ outcome.json.success = TRUE

\* The events an outcome carries or was computed from carry the attempt of
\* their stream: the attempts that show in an outcome's messages.
AttemptsIn(outcome) ==
  IF "messages" \in DOMAIN outcome.json
  THEN {outcome.json.messages[i].att : i \in DOMAIN outcome.json.messages}
  ELSE {}

\* C1: under continue-on-failure execute() returns exactly one outcome per
\* input item, the i-th outcome paired with the i-th item.
C1_OneOutcomePerItem ==
  (pc = "returned" /\ continueOnFail) =>
     /\ Len(returnData) = nItems
     /\ \A i \in 1..Len(returnData) : returnData[i].pairedItem = i - 1

\* C2: when the first stream threw a working-directory error on a request with
\* a cwd and the fallback stream ends after a terminal success result event,
\* the step that ends the fallback pushes one success-shaped outcome for the
\* item, holding events of the fallback attempt only.
C2_FallbackSuccessOutcome ==
  [][ ( /\ pc = "fallback"
        /\ pc' # "fallback"
        /\ fallbackError' = None
        /\ Len(messages) > 0
        /\ messages[Len(messages)].type = "result"
        /\ messages[Len(messages)].subtype = "success" )
      => ( /\ Len(returnData') = Len(returnData) + 1
           /\ returnData'[Len(returnData')].pairedItem = itemIndex
           /\ IsSuccessShaped(returnData'[Len(returnData')])
           /\ AttemptsIn(returnData'[Len(returnData')]) \subseteq {2} ) ]_vars

\* C3: when a result event with a working-directory error arrives on the first
\* stream of a request with a cwd (the step that breaks out of the loop), the
\* driver issues the fallback: a second request, without cwd.
C3_MidStreamDetectionFallsBack ==
  [][ ( /\ FirstMessage
        /\ pc' # "streaming" )
      => ( /\ pc' = "fallback"
           /\ Len(requests') = 2
           /\ requests'[2].cwd = None ) ]_vars

SameButCwd(first, second) ==
  /\ second.cwd = None
  /\ second.prompt = first.prompt
  /\ second.options.model = first.options.model
  /\ second.options.maxTurns = first.options.maxTurns
  /\ second.options.permissionMode = first.options.permissionMode
  /\ second.options.systemPrompt = first.options.systemPrompt
  /\ second.options.allowedTools = first.options.allowedTools

\* C4: at most two agent requests are issued for an item, and the second one
\* has no cwd and the prompt, model, max turns, permission mode, system prompt
\* and allowed tools of the first.
C4_AtMostTwoRequests ==
  /\ Len(requests) <= 2
  /\ Len(requests) = 2 => SameButCwd(requests[1], requests[2])

\* C4 happens: a fallback request is out for a plan request that has a cwd, a
\* system prompt and allowed tools.
C4_Witness ==
  /\ pc = "fallback"
  /\ Len(requests) = 2
  /\ IsSome(requests[1].cwd)
  /\ IsSome(requests[1].options.systemPrompt)
  /\ IsSome(requests[1].options.allowedTools)
  /\ requests[2] # requests[1]

\* The substrings the catch block looks for in a thrown error's message.
ThrownNeedles == {"working directory", "cwd", "chdir", "no such file or directory"}

\* The rope contains, case-insensitively, one of the needles.
MentionsAny(rope, needles) ==
  \E n \in needles : Includes(ToLowerCase(Flat(rope)), Chars[n])

\* queryError, fallbackError and requests keep their values from the moment
\* they are set until the next item is read, so a state in which they are set
\* tells how the current or the last item went.

\* C5: if the first stream threw an Error whose message contains, in any case,
\* 'working directory', 'cwd', 'chdir' or 'no such file or directory' and the
\* request had a cwd, exactly one fallback request was issued, without cwd.
C5_ThrownWorkingDirErrorFallsBack ==
  ( /\ IsSome(queryError)
    /\ Val(queryError).isError
    /\ MentionsAny(Val(queryError).message, ThrownNeedles)
    /\ IsSome(requests[1].cwd) )
  => ( /\ Len(requests) = 2
       /\ requests[2].cwd = None )

\* C5 happens: the fallback is out after 'no such file or directory' was thrown.
C5_Witness ==
  /\ pc = "fallback"
  /\ queryError = Some(ErrorOf("Error", <<"ENOENT: no such file or directory">>))
  /\ Len(requests) = 2
  /\ IsSome(requests[1].cwd)
  /\ requests[2].cwd = None

\* The error surfaced for the item resolved last is error: the message and
\* kind of the error-shaped outcome under continue-on-fail, the description of
\* the error execute() threw otherwise.
SurfacedForLastItem(error) ==
  IF continueOnFail
  THEN /\ pc \in {"loop", "returned"}
       /\ Len(returnData) > 0
       /\ LastOutcome.pairedItem = itemIndex - 1
       /\ IsErrorShaped(LastOutcome)
       /\ LastOutcome.json.error = ErrorMessage(error)
       /\ LastOutcome.json.errorType = ErrorType(error)
  ELSE /\ pc = "threw"
       /\ IsSome(thrown)
       /\ Val(thrown).description = ErrorMessage(error)

\* C6: if the first stream threw and the request had no cwd or the message has
\* none of the working-directory substrings, no second request was issued and
\* that error is the one the item's failure handling surfaced.
C6_OtherErrorsPropagate ==
  ( /\ IsSome(queryError)
    /\ \/ ~IsSome(requests[1].cwd)
       \/ ~MentionsAny(Val(queryError).message, ThrownNeedles) )
  => ( /\ Len(requests) = 1
       /\ SurfacedForLastItem(Val(queryError)) )

\* C6 happens: with a cwd, 'rate limit exceeded' was thrown and is the outcome.
C6_Witness ==
  /\ pc = "loop"
  /\ continueOnFail
  /\ Len(requests) = 1
  /\ IsSome(requests[1].cwd)
  /\ queryError = Some(ErrorOf("Error", <<"rate limit exceeded">>))
  /\ Len(returnData) > 0
  /\ LastOutcome.json.error = <<"rate limit exceeded">>

\* C7: if the fallback stream threw, the error surfaced for the item is the
\* first attempt's error.
C7_FallbackFailureSurfacesOriginal ==
  IsSome(fallbackError) => SurfacedForLastItem(Val(queryError))

\* C7 happens: the fallback threw another error than the first attempt and the
\* outcome carries the first attempt's message.
C7_Witness ==
  /\ pc = "loop"
  /\ continueOnFail
  /\ IsSome(fallbackError)
  /\ IsSome(queryError)
  /\ Val(fallbackError).message # Val(queryError).message
  /\ Len(returnData) > 0
  /\ LastOutcome.json.error = Val(queryError).message

\* An attempt of the item ended with the AbortError of its timeout.
EndedByTimeout ==
  \/ IsSome(queryError) /\ Val(queryError).name = "AbortError"
  \/ IsSome(fallbackError) /\ Val(fallbackError).name = "AbortError"

\* C8: once an attempt of an item (first or fallback) was ended by its timeout
\* and the item is resolved, the item's outcome is a timeout: errorType
\* 'timeout' under continue-on-fail, the 'Operation timed out' error otherwise.
C8_TimeoutClassified ==
  (pc \in {"loop", "threw", "returned"} /\ EndedByTimeout) =>
     IF continueOnFail
     THEN /\ Len(returnData) > 0
          /\ LastOutcome.pairedItem = itemIndex - 1
          /\ IsErrorShaped(LastOutcome)
          /\ LastOutcome.json.errorType = "timeout"
     ELSE /\ pc = "threw"
          /\ Head(Val(thrown).message) = "Operation timed out after "

\* C9: after the first attempt ended with the AbortError of the timeout, no
\* further request is issued for the item.
C9_TimeoutNeverRetried ==
  (IsSome(queryError) /\ Val(queryError).name = "AbortError") => Len(requests) <= 1

\* The item resolved last failed: it was stopped before any request (prompt,
\* CLI or path validation), or its first stream threw and no fallback was
\* made, or its fallback stream threw.
LastItemFailed ==
  /\ pc \in {"loop", "returned", "threw"}
  /\ itemIndex > 0 \/ pc = "threw"
  /\ \/ requests = <<>>
     \/ IsSome(queryError) /\ Len(requests) = 1
     \/ IsSome(fallbackError)

\* C10: under continue-on-fail execute() never throws, a failed item has
\* exactly one outcome, error-shaped (error, errorType, itemIndex), and
\* execute() returns only after the loop reached the last item; without it no
\* error-shaped outcome is pushed, a failed item makes execute() throw with
\* no stream open, and what has thrown does not return.
C10_FailureIsolation ==
  /\ continueOnFail =>
       /\ pc # "threw" /\ thrown = None
       /\ LastItemFailed =>
            /\ Len(returnData) > 0
            /\ {"error", "errorType", "itemIndex"} \subseteq DOMAIN LastOutcome.json
            /\ LastOutcome.json.itemIndex = itemIndex - 1
            /\ LastOutcome.pairedItem = itemIndex - 1
            /\ \A i \in 1..(Len(returnData) - 1) : returnData[i].pairedItem < itemIndex - 1
  /\ ~continueOnFail =>
       /\ \A i \in 1..Len(returnData) : ~IsErrorShaped(returnData[i])
       /\ LastItemFailed => pc = "threw"
       /\ pc = "threw" <=> IsSome(thrown)
       /\ pc = "threw" => (open = {} /\ itemIndex < nItems)
  /\ pc = "returned" => (itemIndex = nItems /\ thrown = None)

\* C10 happens: after the first item failed, the second one is being streamed.
C10_Witness ==
  /\ continueOnFail
  /\ pc = "streaming"
  /\ itemIndex = 1
  /\ Len(returnData) = 1
  /\ IsErrorShaped(returnData[1])
  /\ returnData[1].pairedItem = 0

\* -------------------------------------------------- the normaliser on its own
\* The events a collected sequence is made of: those of StreamEvents, the
\* assistant events without text to show (blank text, a tool use only, no
\* content part), a user event, a result event whose duration_ms is 0, and
\* assistant events that invoke the ExitPlanMode tool: as the first content
\* part with a plan, as the first content part without one, and as the second
\* content part, after a text part, with a plan.
ExitPlanFirst ==
  SdkMessage("assistant", "", <<ToolUsePart("ExitPlanMode", Some("1. edit a.ts"))>>,
             None, None, None, None, 1)
ExitPlanSecond ==
  SdkMessage("assistant", "",
             <<TextPart("fix"), ToolUsePart("ExitPlanMode", Some("1. edit b.ts"))>>,
             None, None, None, None, 1)
ExitPlanWithoutPlan ==
  SdkMessage("assistant", "", <<ToolUsePart("ExitPlanMode", None)>>,
             None, None, None, None, 1)
ResultInNoTime ==
  SdkMessage("result", "success", <<>>, Some("fix"), None, Some(0), Some(2), 1)

CollectedEvents ==
  StreamEvents(1) \cup
    { SdkMessage("assistant", "", <<TextPart("  ")>>, None, None, None, None, 1),
      SdkMessage("assistant", "", <<ToolUsePart("Read", None)>>, None, None, None, None, 1),
      SdkMessage("assistant", "", <<>>, None, None, None, None, 1),
      SdkMessage("user", "", <<>>, None, None, None, None, 1),
      ExitPlanFirst, ExitPlanSecond, ExitPlanWithoutPlan, ResultInNoTime }

MessageLists == UNION {[1..n -> CollectedEvents] : n \in 0..MaxMessages}

\* The items whose events are normalised: those of ItemInputs with a prompt,
\* and the three switches of plan mode (line 405 enablePlanMode, lines 406-410
\* autoExecuteAfterPlan, the operation) in every combination.
NormalizeInputs ==
  {it \in ItemInputs : ~TrimIsEmpty(it.prompt)}
    \cup { [ItemParams(operation, "fix", "/p", "structured", <<>>, "") EXCEPT
              !.enablePlanMode = enablePlanMode,
              !.autoExecuteAfterPlan = autoExecuteAfterPlan] :
            operation \in {"query", "plan"}, enablePlanMode \in BOOLEAN,
            autoExecuteAfterPlan \in BOOLEAN }

\* The first stream of the only item of a batch has delivered the events of
\* messages and is about to end (line 673).
NormalizeInit ==
  /\ nItems = 1
  /\ continueOnFail = FALSE
  /\ pc = "streaming"
  /\ itemIndex = 0
  /\ item \in NormalizeInputs
  /\ queryOptions =
       Some(QueryOptionsOf(item,
                           IF item.projectPath = "" THEN None
                           ELSE Some(PathResolve(Trim(item.projectPath))),
                           FirstId(0)))
  /\ messages \in MessageLists
  /\ querySucceeded = FALSE
  /\ queryError = None
  /\ fallbackError = None
  /\ returnData = <<>>
  /\ thrown = None
  /\ armed = {FirstId(0)}
  /\ aborted = {}
  /\ requests = <<Val(queryOptions)>>
  /\ open = {FirstId(0)}
  /\ ValidatorAtRest
  /\ PlanningAtRest
  /\ ChdirAtRest

NormalizeNext ==
  \/ FirstStreamEnd
  \/ Return

SpecNormalize == NormalizeInit /\ [][NormalizeNext]_vars

\* ---------------------------------------------- the first stream on its own
\* The most events the first stream yields when it is followed event by event.
MaxDetectEvents == 2

\* The request of the only item of a batch was passed to query() (line 638)
\* and its stream has yielded nothing yet.
DetectInit ==
  /\ nItems = 1
  /\ continueOnFail = FALSE
  /\ pc = "streaming"
  /\ itemIndex = 0
  /\ item \in {it \in ItemInputs : ~TrimIsEmpty(it.prompt)}
  /\ queryOptions =
       Some(QueryOptionsOf(item,
                           IF item.projectPath = "" THEN None
                           ELSE Some(PathResolve(Trim(item.projectPath))),
                           FirstId(0)))
  /\ messages = <<>>
  /\ querySucceeded = FALSE
  /\ queryError = None
  /\ fallbackError = None
  /\ returnData = <<>>
  /\ thrown = None
  /\ armed = {FirstId(0)}
  /\ aborted = {}
  /\ requests = <<Val(queryOptions)>>
  /\ open = {FirstId(0)}
  /\ ValidatorAtRest
  /\ PlanningAtRest
  /\ ChdirAtRest

DetectMessage ==
  \E message \in StreamEvents(1) : FirstMessageYields(message, MaxDetectEvents)

DetectNext ==
  \/ DetectMessage
  \/ FirstStreamEnd
  \/ Return

SpecDetect == DetectInit /\ [][DetectNext]_vars

\* ------------------------------------------------ the path validator on its own
\* validateProjectPath (lines 305-388) call by call and probe by probe, next
\* to whatever else changes the directory meanwhile.
batchVars ==
  <<nItems, continueOnFail, pc, itemIndex, item, queryOptions, messages,
    querySucceeded, queryError, fallbackError, returnData, thrown, armed, aborted,
    requests, open>>

\* The path the calls are made with.
ProjectPaths == {"/p"}

\* configChecks, in the order of the loop of line 351.
ConfigChecks == <<"claudeSettings", "claudeLocalSettings", "mcpConfig">>

\* No batch is running.
ValidatorInit ==
  /\ nItems = 0
  /\ continueOnFail = FALSE
  /\ pc = "loop"
  /\ itemIndex = 0
  /\ item = NoItem
  /\ queryOptions = None
  /\ messages = <<>>
  /\ querySucceeded = FALSE
  /\ queryError = None
  /\ fallbackError = None
  /\ returnData = <<>>
  /\ thrown = None
  /\ armed = {}
  /\ aborted = {}
  /\ requests = <<>>
  /\ open = {}
  /\ PlanningAtRest
  /\ ChdirAtRest
  /\ filesystem \in FsStates
  /\ validatorPc = "idle"
  /\ result = NewResult("")
  /\ pending = <<>>
  /\ undisturbed = TRUE
  /\ lastResult = None

\* Lines 305-325: a call begins; it runs up to the await of fs.stat.  What
\* the call before returned is remembered when nothing changed the directory
\* since that call began.
ValidateCall ==
  /\ validatorPc \in {"idle", "returned"}
  /\ \E projectPath \in ProjectPaths : result' = NewResult(projectPath)
  /\ lastResult' = IF validatorPc = "returned" /\ undisturbed THEN Some(result) ELSE None
  /\ undisturbed' = TRUE
  /\ pending' = <<>>
  /\ validatorPc' = "stat"
  /\ UNCHANGED <<filesystem, batchVars, planningVars, chdirVars>>

\* The stat step that does not look at isDirectory().
ValidateStatExistenceOnly ==
  /\ validatorPc = "stat"
  /\ IF ~filesystem.exists
     THEN /\ result' = [result EXCEPT
                          !.error = Some(<<"Directory does not exist: ", Val(result.resolvedPath)>>)]
          /\ validatorPc' = "returned"
     ELSE /\ result' = result
          /\ validatorPc' = "access"
  /\ UNCHANGED <<filesystem, pending, undisturbed, lastResult, batchVars, planningVars, chdirVars>>

\* The stat step that creates a missing directory.
ValidateStatCreating ==
  /\ validatorPc = "stat"
  /\ IF ~filesystem.exists
     THEN /\ result' = [result EXCEPT
                          !.error = Some(<<"Directory does not exist: ", Val(result.resolvedPath)>>)]
          /\ validatorPc' = "returned"
          /\ filesystem' = [filesystem EXCEPT !.exists = TRUE, !.isDirectory = TRUE]
     ELSE /\ filesystem' = filesystem
          /\ IF ~filesystem.isDirectory
             THEN /\ result' = [result EXCEPT
                       !.error = Some(<<"Path exists but is not a directory: ",
                                        Val(result.resolvedPath)>>)]
                  /\ validatorPc' = "returned"
             ELSE /\ result' = result
                  /\ validatorPc' = "access"
  /\ UNCHANGED <<pending, undisturbed, lastResult, batchVars, planningVars, chdirVars>>

\* Lines 325-334: fs.stat settles.  A rejection is "does not exist", a
\* result that is not a directory is "not a directory".
ValidateStat ==
  /\ validatorPc = "stat"
  /\ IF ~filesystem.exists
     THEN /\ result' = [result EXCEPT
                          !.error = Some(<<"Directory does not exist: ", Val(result.resolvedPath)>>)]
          /\ validatorPc' = "returned"
     ELSE IF ~filesystem.isDirectory
     THEN /\ result' = [result EXCEPT
                          !.error = Some(<<"Path exists but is not a directory: ",
                                           Val(result.resolvedPath)>>)]
          /\ validatorPc' = "returned"
     ELSE /\ result' = result
          /\ validatorPc' = "access"
  /\ UNCHANGED <<filesystem, pending, undisturbed, lastResult, batchVars, planningVars, chdirVars>>

\* Lines 336-354: fs.access(R_OK | W_OK) settles; when it resolves the loop
\* over configChecks begins.
ValidateAccess ==
  /\ validatorPc = "access"
  /\ IF ~filesystem.access
     THEN /\ result' = [result EXCEPT
                          !.error = Some(<<"Insufficient permissions for directory: ",
                                           Val(result.resolvedPath)>>)]
          /\ validatorPc' = "returned"
          /\ pending' = pending
     ELSE /\ result' = result
          /\ validatorPc' = "config"
          /\ pending' = ConfigChecks
  /\ UNCHANGED <<filesystem, undisturbed, lastResult, batchVars, planningVars, chdirVars>>

\* Lines 351-383: one fs.access(configPath, R_OK) of the loop settles and its
\* key is recorded; after the last one the warnings are added, isValid is set
\* and the call returns.
ValidateConfig ==
  /\ validatorPc = "config"
  /\ pending # <<>>
  /\ LET key == Head(pending)
         configurationFound == (key :> filesystem.config[key]) @@ result.configurationFound
     IN  IF Tail(pending) # <<>>
         THEN /\ result' = [result EXCEPT !.configurationFound = configurationFound]
              /\ validatorPc' = "config"
         ELSE /\ result' =
                   [result EXCEPT
                      !.configurationFound = configurationFound,
                      !.warnings = Warnings(configurationFound),
                      !.isValid = TRUE]
              /\ validatorPc' = "returned"
  /\ pending' = Tail(pending)
  /\ UNCHANGED <<filesystem, undisturbed, lastResult, batchVars, planningVars, chdirVars>>

\* Something else than the validator changes the directory: it appears or
\* goes, turns into a file or a directory, its permissions change, or one of
\* the configuration files appears or goes.
FsChanges ==
  /\ \/ \E attribute \in {"exists", "isDirectory", "access"} :
          filesystem' = [filesystem EXCEPT ![attribute] = ~@]
     \/ \E key \in ConfigKeys :
          filesystem' = [filesystem EXCEPT !.config[key] = ~@]
  /\ undisturbed' = FALSE
  /\ UNCHANGED <<validatorPc, result, pending, lastResult, batchVars, planningVars, chdirVars>>

ValidatorNext ==
  \/ ValidateCall
  \/ ValidateStat
  \/ ValidateAccess
  \/ ValidateConfig
  \/ FsChanges

SpecValidator == ValidatorInit /\ [][ValidatorNext]_vars

\* ----------------------------------------------------- claims on the preparer
\* The allowedTools a request carries; a request without the option carries none.
ToolsSent(request) ==
  IF IsSome(request.options.allowedTools) THEN Val(request.options.allowedTools) ELSE <<>>

ToolSetSent(request) == {ToolsSent(request)[k] : k \in DOMAIN ToolsSent(request)}

MutatingTools == {"Write", "Edit", "MultiEdit", "NotebookEdit", "Bash"}

\* C11: in plan mode (operation 'plan', or 'query' with enablePlanMode) no
\* request of the item, first or fallback, lists Write, Edit, MultiEdit,
\* NotebookEdit or Bash among its allowedTools, whatever tools were requested.
C11_PlanModeToolSafety ==
  IsPlanMode(item) =>
     \A i \in DOMAIN requests : ToolSetSent(requests[i]) \cap MutatingTools = {}

\* C11 happens: a query with enablePlanMode that asked for a mutating tool
\* has issued its first request and its fallback.
C11_Witness ==
  /\ item.operation = "query" /\ item.enablePlanMode
  /\ \E k \in DOMAIN item.allowedTools : item.allowedTools[k] \in MutatingTools
  /\ \E k \in DOMAIN item.allowedTools : item.allowedTools[k] \in ReadOnlyTools
  /\ Len(requests) = 2

\* The entries of a request's allowedTools that name the exit tool, in either
\* spelling.
ExitEntries(request) ==
  {k \in DOMAIN ToolsSent(request) :
     ToolsSent(request)[k] \in {"exit_plan_mode", "ExitPlanMode"}}

\* C12: every plan-mode request lists the exit tool exactly once, counting
\* both spellings, whatever tools were requested.
C12_ExitToolExactlyOnce ==
  IsPlanMode(item) =>
     \A i \in DOMAIN requests : Cardinality(ExitEntries(requests[i])) = 1

\* C13: in plan mode the set of tools sent is the requested tools that are
\* among Read, Grep, Glob, LS, Task, WebFetch, WebSearch, TodoWrite, plus
\* exit_plan_mode; outside plan mode the requested list is sent unchanged.
C13_EffectiveToolSet ==
  \A i \in DOMAIN requests :
     IF IsPlanMode(item)
     THEN ToolSetSent(requests[i]) =
            ({item.allowedTools[k] : k \in DOMAIN item.allowedTools}
               \cap {"Read", "Grep", "Glob", "LS", "Task", "WebFetch", "WebSearch",
                     "TodoWrite"})
            \cup {"exit_plan_mode"}
     ELSE ToolsSent(requests[i]) = item.allowedTools

\* C14: no request built in plan mode carries permissionMode
\* 'bypassPermissions', whatever requirePermissions is.
C14_PlanModePermission ==
  IsPlanMode(item) =>
     \A i \in DOMAIN requests : requests[i].options.permissionMode # "bypassPermissions"

\* ------------------------------------------ claims on the checks before a request
\* Every character of the prompt is a space (the empty prompt included).
BlankPrompt(prompt) == \A k \in DOMAIN Chars[prompt] : Chars[prompt][k] = " "

\* This step ended the current item with the failure message: one more
\* outcome, error-shaped and carrying message, under continue-on-fail, and
\* execute() throwing with message as description otherwise.
FailsNowWith(message) ==
  IF continueOnFail
  THEN /\ pc' = "loop"
       /\ itemIndex' = itemIndex + 1
       /\ Len(returnData') = Len(returnData) + 1
       /\ IsErrorShaped(returnData'[Len(returnData')])
       /\ returnData'[Len(returnData')].json.error = message
       /\ returnData'[Len(returnData')].pairedItem = itemIndex
  ELSE /\ pc' = "threw"
       /\ IsSome(thrown')
       /\ Val(thrown').description = message
       /\ returnData' = returnData

\* C15: an item whose prompt is empty or only white space fails with the
\* validation error and no agent request is issued for it: the step that
\* reads it issues no request and ends it with that error, and no request and
\* no item in flight ever has a blank prompt.
C15_BlankPromptRejected ==
  /\ [](/\ \A i \in DOMAIN requests : ~BlankPrompt(requests[i].prompt)
        /\ pc \in {"pathValidation", "streaming", "fallback"} => ~BlankPrompt(item.prompt))
  /\ [][\A it \in (IF pc = "loop" THEN ItemInputs ELSE {}), cliCheck \in CliResults :
          (BlankPrompt(it.prompt) /\ BeginItemWith(it, cliCheck)) =>
             /\ requests' = <<>>
             /\ open' = open
             /\ FailsNowWith(<<"Prompt is required and cannot be empty">>)]_vars

\* C15 happens: the second item had a blank prompt, after a first item that
\* was answered.
C15_Witness ==
  /\ continueOnFail
  /\ pc = "loop"
  /\ Len(returnData) = 2
  /\ ~IsErrorShaped(returnData[1])
  /\ IsErrorShaped(returnData[2])
  /\ returnData[2].json.error = <<"Prompt is required and cannot be empty">>
  /\ requests = <<>>

\* The directory is there, is a directory and can be read and written.
Usable(fs) == fs.exists /\ fs.isDirectory /\ fs.access

\* C16: when the validation of a requested project path fails, the item fails
\* in that step and no request is issued; a first request carries a cwd only
\* when a validation that returned isValid = true gave it its resolved path,
\* and a second request carries none.
C16_FailFastOnPath ==
  [][/\ \A fs \in (IF pc = "pathValidation" THEN FsStates ELSE {}) :
          \/ IF Usable(fs)
             THEN /\ pc' = "streaming"
                  /\ Len(requests') = 1
                  /\ requests'[1].cwd = Some(PathResolve(Trim(item.projectPath)))
             ELSE /\ requests' = <<>>
                  /\ open' = open
                  /\ \E reason \in {"Directory does not exist: ",
                                    "Path exists but is not a directory: ",
                                    "Insufficient permissions for directory: "} :
                        FailsNowWith(<<"Invalid project path: ", reason,
                                       PathResolve(Trim(item.projectPath))>>)
          \/ ~PathValidatedOn(fs)
     /\ (pc' = "streaming" /\ pc # "streaming" /\ IsSome(requests'[1].cwd)) =>
          \E fs \in FsStates :
             /\ ValidateProjectPath(Trim(item.projectPath), fs).isValid
             /\ PathValidatedOn(fs)
             /\ requests'[1].cwd = ValidateProjectPath(Trim(item.projectPath), fs).resolvedPath
     /\ (pc' = "fallback" /\ pc # "fallback") => requests'[2].cwd = None]_vars

\* C16 happens: the first item failed the path validation and the second is
\* being streamed in its validated directory.
C16_Witness ==
  /\ continueOnFail
  /\ pc = "streaming"
  /\ itemIndex = 1
  /\ Len(returnData) = 1
  /\ IsErrorShaped(returnData[1])
  /\ Head(returnData[1].json.error) = "Invalid project path: "
  /\ Len(requests) = 1
  /\ requests[1].cwd = Some("/p")

\* ------------------------------------------------ claims on the path validator
\* A call has returned and nothing else changed the directory while it ran.
ReturnedUndisturbed == validatorPc = "returned" /\ undisturbed

\* C17: a call that met one state of the directory returns isValid = false
\* with 'Directory does not exist' when the path does not exist, with 'Path
\* exists but is not a directory' when it exists and is no directory, with
\* 'Insufficient permissions' when it is a directory without read and write
\* access, in that order, and isValid = true exactly when it is an existing
\* directory with that access; it then returns what ValidateProjectPath says.
C17_ValidationVerdicts ==
  ReturnedUndisturbed =>
     /\ ~filesystem.exists =>
          /\ ~result.isValid
          /\ result.error = Some(<<"Directory does not exist: ", Val(result.resolvedPath)>>)
     /\ (filesystem.exists /\ ~filesystem.isDirectory) =>
          /\ ~result.isValid
          /\ result.error =
               Some(<<"Path exists but is not a directory: ", Val(result.resolvedPath)>>)
     /\ (filesystem.exists /\ filesystem.isDirectory /\ ~filesystem.access) =>
          /\ ~result.isValid
          /\ result.error =
               Some(<<"Insufficient permissions for directory: ", Val(result.resolvedPath)>>)
     /\ result.isValid <=>
          (filesystem.exists /\ filesystem.isDirectory /\ filesystem.access)
     /\ result.isValid => result.error = None
     /\ result = ValidateProjectPath(Val(result.resolvedPath), filesystem)

\* C17 happens: the path is a file that cannot be accessed either, and the
\* call said it is not a directory.
C17_Witness ==
  /\ ReturnedUndisturbed
  /\ filesystem.exists /\ ~filesystem.isDirectory /\ ~filesystem.access
  /\ ~result.isValid

\* The configuration artifacts a result reports as found.
FoundIn(r) == {k \in DOMAIN r.configurationFound : r.configurationFound[k]}

\* C18 as stated: a successful validation is valid whatever artifacts are
\* there, and has a warning whenever not all three artifacts were found.
C18_WarningsWhenNotAllFound ==
  (ReturnedUndisturbed /\ result.isValid) =>
     /\ FoundIn(result) = {k \in ConfigKeys : filesystem.config[k]}
     /\ FoundIn(result) # ConfigKeys => result.warnings # <<>>

\* C18 amended: a successful validation is valid whatever artifacts are there
\* and reports them as they are; it has a warning exactly when neither
\* settings file was found (nothing found, or only the MCP configuration).
C18_WarningsWhenNoSettings ==
  /\ (ReturnedUndisturbed /\ filesystem.exists /\ filesystem.isDirectory /\ filesystem.access)
        => result.isValid
  /\ (ReturnedUndisturbed /\ result.isValid) =>
        /\ DOMAIN result.configurationFound = ConfigKeys
        /\ FoundIn(result) = {k \in ConfigKeys : filesystem.config[k]}
        /\ result.warnings # <<>> <=>
             FoundIn(result) \cap {"claudeSettings", "claudeLocalSettings"} = {}
        /\ FoundIn(result) = ConfigKeys => result.warnings = <<>>

\* C18 happens: a valid directory with only .claude/settings.json, and no
\* warning.
C18_Witness ==
  /\ ReturnedUndisturbed
  /\ result.isValid
  /\ FoundIn(result) = {"claudeSettings"}
  /\ result.warnings = <<>>

\* C19: no step of validateProjectPath changes the directory, and a call
\* that follows another with nothing else changing the directory since the
\* first began returns the same isValid and configurationFound.
C19_IdempotentValidation ==
  /\ [][(validatorPc' # validatorPc \/ result' # result \/ pending' # pending)
          => filesystem' = filesystem]_vars
  /\ [](/\ ReturnedUndisturbed /\ IsSome(lastResult) =>
             /\ result.isValid = Val(lastResult).isValid
             /\ result.configurationFound = Val(lastResult).configurationFound
        /\ (validatorPc # "idle" /\ undisturbed /\ IsSome(lastResult)) =>
             Val(lastResult) = ValidateProjectPath(Val(result.resolvedPath), filesystem))

\* C19 happens: the second of two calls on an unchanged valid directory has
\* returned.
C19_Witness ==
  /\ ReturnedUndisturbed
  /\ IsSome(lastResult)
  /\ result.isValid
  /\ FoundIn(result) = {"mcpConfig"}

\* --------------------------------------------------- claims on the normaliser
\* Every character of the text is a space.
BlankText(text) == \A k \in DOMAIN Chars[text] : Chars[text][k] = " "

\* The collected sequence is empty, or has neither an assistant event with a
\* text that is not blank nor a result event.
Degenerate(collected) ==
  \/ Len(collected) = 0
  \/ /\ ~\E i \in DOMAIN collected :
           /\ collected[i].type = "assistant"
           /\ \E k \in DOMAIN collected[i].content :
                 /\ collected[i].content[k].type = "text"
                 /\ ~BlankText(collected[i].content[k].text)
     /\ ~\E i \in DOMAIN collected : collected[i].type = "result"

\* C20: for every output format, when the stream ends and the collected
\* events are degenerate, the one outcome pushed for the item is a diagnostic
\* payload: success = false, a warning that is not empty, the count of the
\* events; so no outcome with success = true comes from such a sequence.
C20_DegenerateOutputGate ==
  [][(pc = "streaming" /\ FirstStreamEnd /\ Degenerate(messages)) =>
        /\ Len(returnData') = Len(returnData) + 1
        /\ LET outcome == returnData'[Len(returnData')]
           IN  /\ outcome.pairedItem = itemIndex
               /\ {"success", "warning", "messageCount", "diagnostics"}
                     \subseteq DOMAIN outcome.json
               /\ outcome.json.success = FALSE
               /\ outcome.json.warning # ""
               /\ outcome.json.messageCount = Len(messages)]_vars

\* C20 happens: two events, an assistant event among them, none with text to
\* show and no result event, gave a diagnostic payload.
C20_Witness ==
  /\ pc = "loop"
  /\ Len(returnData) = 1
  /\ "warning" \in DOMAIN returnData[1].json
  /\ returnData[1].json.messageCount = 2
  /\ returnData[1].json.diagnostics.hasAssistantMessages

\* ------------------------------------------------ claims on the output formats
\* The payload of the outcome that the step pushes.
PushedJson == returnData'[Len(returnData')].json

\* The first stream ends and the events collected are normalised in format.
NormalizedIn(format) ==
  /\ pc = "streaming"
  /\ item.outputFormat = format
  /\ ~Degenerate(messages)
  /\ FirstStreamEnd

HasResult(collected) == \E i \in DOMAIN collected : collected[i].type = "result"

\* The result event after which the sequence has no other result event.
TerminalResult(collected) ==
  collected[CHOOSE i \in DOMAIN collected :
              /\ collected[i].type = "result"
              /\ \A j \in (i + 1)..Len(collected) : collected[j].type # "result"]

\* The result event before which the sequence has no other result event.
FirstResult(collected) ==
  collected[CHOOSE i \in DOMAIN collected :
              /\ collected[i].type = "result"
              /\ \A j \in 1..(i - 1) : collected[j].type # "result"]

\* The result text of a result event, else its error text, else nothing.
ResultText(m) ==
  IF IsSome(m.result) /\ Val(m.result) # "" THEN Val(m.result)
  ELSE IF IsSome(m.error) /\ Val(m.error) # "" THEN Val(m.error)
  ELSE ""

TextFields == {"result", "success", "duration_ms", "total_cost_usd"}

C22_TextWithoutResult ==
  [][(NormalizedIn("text") /\ ~HasResult(messages)) =>
        /\ DOMAIN PushedJson = TextFields
        /\ PushedJson.result = ""
        /\ PushedJson.success = FALSE]_vars

\* C22 happens: a text payload that came from no result event, so without a
\* cost, with an empty result.
C22_Witness ==
  /\ pc = "loop"
  /\ Len(returnData) = 1
  /\ DOMAIN returnData[1].json = TextFields
  /\ returnData[1].json.total_cost_usd = None
  /\ returnData[1].json.result = ""
  /\ ~returnData[1].json.success

\* C23: in 'structured' format the metrics sub-record is null when the
\* sequence has no result event, and otherwise holds the duration, turn
\* count, cost and usage of the result event.
C23_MetricsNullWithoutResult ==
  [][NormalizedIn("structured") =>
        IF HasResult(messages)
        THEN LET t == FirstResult(messages)
             IN  PushedJson.metrics =
                   Some([duration_ms |-> t.duration_ms,
                         num_turns |-> Some(t.num_turns),
                         total_cost_usd |-> t.total_cost_usd,
                         usage |-> t.usage])
        ELSE PushedJson.metrics = None]_vars

\* The plans that the ExitPlanMode invocations of the assistant events of the
\* sequence carry, whatever the position of the invocation in its event.
PlansCarried(collected) ==
  { Val(collected[i].content[k].plan) :
      <<i, k>> \in { <<i, k>> \in (DOMAIN collected) \X (1..2) :
                       /\ collected[i].type = "assistant"
                       /\ k \in DOMAIN collected[i].content
                       /\ collected[i].content[k].type = "tool_use"
                       /\ collected[i].content[k].name = "ExitPlanMode"
                       /\ IsSome(collected[i].content[k].plan)
                       /\ Val(collected[i].content[k].plan) # "" } }

\* C24: in 'structured' format, when an assistant event of the sequence holds,
\* at any position of its content, an ExitPlanMode invocation with a plan, the
\* output's plan is such a plan and hasPlan is true; when no assistant event
\* holds one, plan is null and hasPlan is false.
C24_PlanExtractedAtAnyPosition ==
  [][NormalizedIn("structured") =>
        IF PlansCarried(messages) # {}
        THEN /\ IsSome(PushedJson.plan)
             /\ Val(PushedJson.plan) \in PlansCarried(messages)
             /\ PushedJson.summary.hasPlan
        ELSE /\ PushedJson.plan = None
             /\ ~PushedJson.summary.hasPlan]_vars

\* C25: in every structured outcome readyForExecution is true exactly when the
\* item was in plan mode (operation 'plan', or 'query' with enablePlanMode),
\* autoExecuteAfterPlan was set and the outcome holds a plan; planApproved is
\* false.
C25_ReadyForExecution ==
  [][NormalizedIn("structured") =>
        /\ PushedJson.readyForExecution =
             /\ (item.operation = "plan" \/ (item.operation = "query" /\ item.enablePlanMode))
             /\ item.autoExecuteAfterPlan
             /\ PushedJson.plan # None
        /\ PushedJson.planApproved = FALSE]_vars

\* C25 happens: a structured outcome with a plan that is ready for execution.
C25_Witness ==
  /\ pc = "loop"
  /\ Len(returnData) = 1
  /\ "readyForExecution" \in DOMAIN returnData[1].json
  /\ returnData[1].json.readyForExecution
  /\ returnData[1].json.plan = Some("1. edit a.ts")
  /\ ~returnData[1].json.planApproved

\* -------------------------------------------------- claims on classification
\* The outcome reports a failure of validation: of the prompt or of the
\* working directory.
IsValidationFailure(outcome) ==
  \/ outcome.json.error = <<"Prompt is required and cannot be empty">>
  \/ outcome.json.error[1] = "Invalid project path: "

\* The outcome reports a failure of the working directory that no fallback
\* made good.
IsWorkingDirFailure(outcome) ==
  outcome.json.error \in
    { <<"Invalid CWD">>, <<"chdir failed">>, <<"Working directory missing">>,
      <<"ENOENT: no such file or directory">> }

\* The outcome reports a failure of the agent that is none of the above.
IsGenericFailure(outcome) == outcome.json.error = <<"rate limit exceeded">>

\* C26: the kind (errorType) of an error-shaped outcome separates the
\* failures: a validation failure and an unrecovered working-directory failure
\* each have a kind that differs from that of a generic agent failure.
C26_KindsSeparateFailures ==
  \A i, j \in DOMAIN returnData :
     ( /\ IsErrorShaped(returnData[i])
       /\ IsErrorShaped(returnData[j])
       /\ IsGenericFailure(returnData[j])
       /\ IsValidationFailure(returnData[i]) \/ IsWorkingDirFailure(returnData[i]) )
     => returnData[i].json.errorType # returnData[j].json.errorType

\* ------------------------------------- the request of the class with 'approve'
\* The file keeps a second class after the first (lines 1012-1547) whose
\* operations are query, plan, approve and continue; this is how its execute()
\* builds the request of an item (lines 1306-1419).

\* The parameters getNodeParameter reads for one item of that class; None is
\* an option of additionalOptions that is not set.
VariantParams(operation, planModifications, systemPrompt) ==
  [operation |-> operation, prompt |-> "fix", model |-> "sonnet", maxTurns |-> 5,
   timeout |-> DefaultTimeout, projectPath |-> "/p", outputFormat |-> "structured",
   allowedTools |-> <<"Read", "Write">>, systemPrompt |-> systemPrompt,
   planDetailLevel |-> None, planModifications |-> planModifications,
   autoApprove |-> FALSE, requirePermissions |-> FALSE, debug |-> FALSE]

VariantInputs ==
  { VariantParams(operation, planModifications, systemPrompt) :
      operation \in {"query", "plan", "approve", "continue"},
      planModifications \in {None, Some(""), Some("  "), Some("add tests")},
      systemPrompt \in {"", "be brief"} }

\* generatePlanningSystemPrompt(detailLevel, autoApprove), lines 1256-1297.
VariantPlanningInstructions(detailLevel, autoApprove) ==
  <<"You are Claude Code in planning mode. ... Planning Guidelines: ...",
    IF detailLevel = "high" THEN "\n\nPlan Detail Level: HIGH LEVEL ..."
    ELSE IF detailLevel = "stepwise" THEN "\n\nPlan Detail Level: STEP-BY-STEP ..."
    ELSE "\n\nPlan Detail Level: DETAILED ...",
    IF autoApprove THEN "\n\nAuto-Approval Mode: ..."
    ELSE "\n\nApproval Required: Always wait for explicit user approval before executing the plan.",
    "\n\nAfter creating your plan, use the ExitPlanMode tool to present it for review and approval.">>

\* additionalOptions.planDetailLevel || 'detailed'
DetailLevelOf(it) ==
  IF IsSome(it.planDetailLevel) /\ Val(it.planDetailLevel) # ""
  THEN Val(it.planDetailLevel) ELSE "detailed"

\* modifications && modifications.trim()
HasModifications(it) ==
  /\ IsSome(it.planModifications)
  /\ Val(it.planModifications) # ""
  /\ ~TrimIsEmpty(Val(it.planModifications))

\* Lines 1346-1367: operationPrompt, as a rope.
OperationPromptOf(it) ==
  IF it.operation = "plan"
  THEN <<"Please create a ", DetailLevelOf(it),
         " plan for the following task. After creating the plan, use the ExitPlanMode tool to present it for approval:\n\n",
         it.prompt>>
  ELSE IF it.operation = "approve"
  THEN IF HasModifications(it)
       THEN <<"Please execute the previously created plan with the following modifications:\n\n",
              Val(it.planModifications), "\n\nOriginal request: ", it.prompt>>
       ELSE <<"Please execute the previously created plan for:\n\n", it.prompt>>
  ELSE <<it.prompt>>

\* Lines 1347-1356: operationSystemPrompt, as a rope.
OperationSystemPromptOf(it) ==
  LET user == IF it.systemPrompt = "" THEN <<>> ELSE <<it.systemPrompt>>
      planningInstructions ==
        VariantPlanningInstructions(DetailLevelOf(it), it.autoApprove)
  IN  IF it.operation = "plan"
      THEN IF user # <<>> THEN user \o <<"\n\n">> \o planningInstructions
           ELSE planningInstructions
      ELSE user

\* The request whose continue flag is set for 'continue' alone.
VariantOptionsContinueOnly(it, controller) ==
  [prompt |-> OperationPromptOf(it),
   abortController |-> controller,
   cwd |-> IF it.projectPath # "" /\ ~TrimIsEmpty(it.projectPath)
           THEN Some(Trim(it.projectPath)) ELSE None,
   options |->
     [maxTurns |-> it.maxTurns,
      permissionMode |-> IF it.requirePermissions THEN "default" ELSE "bypassPermissions",
      model |-> it.model,
      systemPrompt |-> IF OperationSystemPromptOf(it) # <<>>
                       THEN Some(OperationSystemPromptOf(it)) ELSE None,
      allowedTools |-> IF Len(it.allowedTools) > 0 THEN Some(it.allowedTools) ELSE None,
      continue |-> IF it.operation = "continue" THEN Some(TRUE) ELSE None]]

\* Lines 1384-1419: queryOptions.
VariantQueryOptionsOf(it, controller) ==
  [prompt |-> OperationPromptOf(it),
   abortController |-> controller,
   cwd |-> IF it.projectPath # "" /\ ~TrimIsEmpty(it.projectPath)
           THEN Some(Trim(it.projectPath)) ELSE None,
   options |->
     [maxTurns |-> it.maxTurns,
      permissionMode |-> IF it.requirePermissions THEN "default" ELSE "bypassPermissions",
      model |-> it.model,
      systemPrompt |-> IF OperationSystemPromptOf(it) # <<>>
                       THEN Some(OperationSystemPromptOf(it)) ELSE None,
      allowedTools |-> IF Len(it.allowedTools) > 0 THEN Some(it.allowedTools) ELSE None,
      continue |-> IF it.operation = "continue" \/ it.operation = "approve"
                   THEN Some(TRUE) ELSE None]]

\* The parameters of one item are read and its timer is armed (lines
\* 1306-1326); pc = "variantPrepare" is the point where the request is about
\* to be built.
VariantInit ==
  /\ nItems = 1
  /\ continueOnFail = FALSE
  /\ pc = "variantPrepare"
  /\ itemIndex = 0
  /\ item \in VariantInputs
  /\ queryOptions = None
  /\ messages = <<>>
  /\ querySucceeded = FALSE
  /\ queryError = None
  /\ fallbackError = None
  /\ returnData = <<>>
  /\ thrown = None
  /\ armed = {FirstId(0)}
  /\ aborted = {}
  /\ requests = <<>>
  /\ open = {}
  /\ ValidatorAtRest
  /\ PlanningAtRest
  /\ ChdirAtRest

\* Lines 1328-1425: the request is built and passed to query().
VariantPrepare ==
  /\ pc = "variantPrepare"
  /\ LET qo == VariantQueryOptionsOf(item, FirstId(itemIndex))
     IN  /\ queryOptions' = Some(qo)
         /\ requests' = <<qo>>
  /\ open' = open \cup {FirstId(itemIndex)}
  /\ pc' = "variantStreaming"
  /\ UNCHANGED <<validatorVars, planningVars, chdirVars, nItems, continueOnFail, itemIndex, item,
                 messages, querySucceeded, queryError, fallbackError, returnData, thrown,
                 armed, aborted>>

\* The requests of both classes, each from the point where the parameters of
\* an item are read.
RequestInit == PrepareInit \/ VariantInit

RequestNext ==
  \/ PrepareFirst
  \/ PrepareFallback
  \/ VariantPrepare

SpecRequest == RequestInit /\ [][RequestNext]_vars

\* -------------------------------------------- the interactive planning loop
\* One call of executeInteractivePlanningLoop (src/unnamed/part_001, lines
\* 382-513), the function behind the operation 'interactivePlan' of the class
\* of that file: three phases, each a for await over a stream of its own.

\* The largest maxPlanningIterations that is tried.
MaxPlanningIterations == 2

\* The most events that allMessages takes without a plan among them.
MaxPlanMessages == 3

\* maxIterations when the option is not set or is 0 (line 388).
DefaultPlanningIterations == 3

\* additionalOptions of the call: None is an option that is not set.
PlanningInputs ==
  [maxPlanningIterations : {None} \cup {Some(n) : n \in (-1)..MaxPlanningIterations},
   autoExecuteAfterApproval : {None, Some(TRUE), Some(FALSE)}]

\* additionalOptions.maxPlanningIterations || 3
MaxIterationsOf(additionalOptions) ==
  IF IsSome(additionalOptions.maxPlanningIterations)
     /\ Val(additionalOptions.maxPlanningIterations) # 0
  THEN Val(additionalOptions.maxPlanningIterations)
  ELSE DefaultPlanningIterations

\* The execution that does not ask the option.
AutoExecuteAlways(additionalOptions) == TRUE

\* additionalOptions.autoExecuteAfterApproval !== false
AutoExecuteOf(additionalOptions) == additionalOptions.autoExecuteAfterApproval # Some(FALSE)

\* generatePlanningSystemPrompt('detailed', false), lines 339-380.
DetailedPlanningInstructions ==
  "You are Claude Code in planning mode. ... Plan Detail Level: DETAILED ... Approval Required: ... use the ExitPlanMode tool to present it for review and approval."

\* The queryOptions that execute() passes to the call (lines 661-669).
PlanningQueryOptions ==
  [prompt |-> <<"fix">>, abortController |-> <<0, "planning">>,
   options |-> [maxTurns |-> 5, permissionMode |-> "bypassPermissions",
                model |-> "sonnet", systemPrompt |-> None, continue |-> None]]

\* Lines 400-409.
InitialPlanOptions(prompt, options) ==
  [options EXCEPT
     !.prompt = <<"Please create a detailed plan for the following task. After creating the plan, use the ExitPlanMode tool to present it for review and potential refinement:\n\n">>
                \o prompt,
     !.options.systemPrompt = Some(<<DetailedPlanningInstructions>>)]

\* Lines 449-457.
RefinementOptions(plan, options) ==
  [options EXCEPT
     !.prompt = <<"The user provided feedback on the plan. Please refine the plan based on this feedback and present the updated version using ExitPlanMode:\n\nCurrent Plan:\n",
                  plan,
                  "\n\nUser Feedback: Please add error handling and logging to each step.\n\nProvide an improved plan.">>,
     !.options.systemPrompt = Some(<<"You are refining a plan based on user feedback. Incorporate the feedback and present an improved plan using the ExitPlanMode tool.">>),
     !.options.continue = Some(TRUE)]

\* Lines 491-499.
ExecutionOptions(plan, options) ==
  [options EXCEPT
     !.prompt = <<"Please execute the following approved plan:\n\n", plan,
                  "\n\nProceed with implementation.">>,
     !.options.systemPrompt = Some(<<"You are executing a pre-approved plan. Implement all steps carefully and thoroughly.">>),
     !.options.continue = Some(TRUE)]

\* The streams of the three phases.
PlanStream == <<0, "plan">>
RefineStream == <<0, "refine">>
ExecuteStream == <<0, "execute">>

\* The events a stream of the call can yield.
PlanningEvents ==
  { AssistantText(1), ResultSuccess(1), ExitPlanFirst, ExitPlanSecond, ExitPlanWithoutPlan }

\* What a stream of the call can throw.
PlanningStreamErrors ==
  { ErrorOf("Error", <<"rate limit exceeded">>), ErrorOf("AbortError", <<"Operation aborted">>) }

\* Lines 420-423: content.filter(type === 'tool_use').find(name === 'ExitPlanMode')
\* of an assistant event finds a part.
HasExitPlanTool(message) ==
  /\ message.type = "assistant"
  /\ \E k \in DOMAIN message.content :
        message.content[k].type = "tool_use" /\ message.content[k].name = "ExitPlanMode"

\* The part it finds: the first of them.
ExitPlanTool(message) ==
  message.content[CHOOSE k \in DOMAIN message.content :
     /\ message.content[k].type = "tool_use" /\ message.content[k].name = "ExitPlanMode"
     /\ \A j \in 1..(k - 1) :
           ~(message.content[j].type = "tool_use" /\ message.content[j].name = "ExitPlanMode")]

\* exitPlanTool.input?.plan || fallback
PlanOr(tool, fallback) ==
  IF IsSome(tool.plan) /\ Val(tool.plan) # "" THEN Val(tool.plan) ELSE fallback

\* What the call leaves alone.
planningFrame ==
  <<nItems, continueOnFail, itemIndex, item, queryOptions, querySucceeded, queryError,
    fallbackError, returnData, armed, aborted, validatorVars, chdirVars>>

\* The call has begun and has issued no request.
PlanningInit ==
  /\ nItems = 1
  /\ continueOnFail = FALSE
  /\ pc = "planning"
  /\ itemIndex = 0
  /\ item \in PlanningInputs
  /\ queryOptions = Some(PlanningQueryOptions)
  /\ messages = <<>>
  /\ querySucceeded = FALSE
  /\ queryError = None
  /\ fallbackError = None
  /\ returnData = <<>>
  /\ thrown = None
  /\ armed = {}
  /\ aborted = {}
  /\ requests = <<>>
  /\ open = {}
  /\ ValidatorAtRest
  /\ PlanningAtRest
  /\ ChdirAtRest

\* Lines 388-416: the initial plan is requested.
PlanningBegin ==
  /\ pc = "planning"
  /\ requests' = <<InitialPlanOptions(Val(queryOptions).prompt, Val(queryOptions))>>
  /\ open' = open \cup {PlanStream}
  /\ pc' = "phase1"
  /\ UNCHANGED <<messages, thrown, planningVars, planningFrame>>

\* Lines 438-512, from the test of the while loop on, for the stream that was
\* just left: another refinement, the execution, or the return.
RefineExecuteOrReturn(left, collected, plan, approved) ==
  /\ messages' = collected
  /\ currentPlan' = plan
  /\ planApproved' = approved
  /\ thrown' = thrown
  /\ executed' = FALSE
  /\ IF currentIteration < MaxIterationsOf(item) /\ ~approved
     THEN /\ currentIteration' = currentIteration + 1
          /\ requests' = Append(requests, RefinementOptions(plan, Val(queryOptions)))
          /\ open' = (open \ {left}) \cup {RefineStream}
          /\ pc' = "phase2"
     ELSE IF approved /\ AutoExecuteOf(item)
     THEN /\ currentIteration' = currentIteration
          /\ requests' = Append(requests, ExecutionOptions(plan, Val(queryOptions)))
          /\ open' = (open \ {left}) \cup {ExecuteStream}
          /\ pc' = "phase3"
     ELSE /\ currentIteration' = currentIteration
          /\ requests' = requests
          /\ open' = open \ {left}
          /\ pc' = "planned"

\* Lines 433-435 and on: the first loop was left.
AfterPhase1(collected, plan) ==
  IF plan = ""
  THEN /\ messages' = collected
       /\ thrown' = Some(ErrorOf("ApplicationError", <<"Failed to generate initial plan">>))
       /\ open' = open \ {PlanStream}
       /\ pc' = "planningThrew"
       /\ UNCHANGED <<requests, planningVars>>
  ELSE RefineExecuteOrReturn(PlanStream, collected, plan, planApproved)

\* Lines 416-431: the stream of phase 1 yields an event; an ExitPlanMode
\* invocation in it breaks out of the loop.
Phase1Message ==
  /\ pc = "phase1"
  /\ \E message \in PlanningEvents :
       IF HasExitPlanTool(message)
       THEN AfterPhase1(Append(messages, message), PlanOr(ExitPlanTool(message), ""))
       ELSE /\ Len(messages) < MaxPlanMessages
            /\ messages' = Append(messages, message)
            /\ UNCHANGED <<pc, requests, open, thrown, planningVars>>
  /\ UNCHANGED planningFrame

\* The stream of phase 1 ends.
Phase1End ==
  /\ pc = "phase1"
  /\ AfterPhase1(messages, currentPlan)
  /\ UNCHANGED planningFrame

\* Lines 477-481 and on: the loop of a refinement was left.
AfterRefinement(collected, plan) ==
  RefineExecuteOrReturn(RefineStream, collected, plan,
                        IF currentIteration >= 1 THEN TRUE ELSE planApproved)

\* Lines 460-475: the stream of a refinement yields an event.
Phase2Message ==
  /\ pc = "phase2"
  /\ \E message \in PlanningEvents :
       IF HasExitPlanTool(message)
       THEN AfterRefinement(Append(messages, message),
                            PlanOr(ExitPlanTool(message), currentPlan))
       ELSE /\ Len(messages) < MaxPlanMessages
            /\ messages' = Append(messages, message)
            /\ UNCHANGED <<pc, requests, open, thrown, planningVars>>
  /\ UNCHANGED planningFrame

\* The stream of a refinement ends.
Phase2End ==
  /\ pc = "phase2"
  /\ AfterRefinement(messages, currentPlan)
  /\ UNCHANGED planningFrame

\* Lines 502-504: the stream of the execution yields an event.
Phase3Message ==
  /\ pc = "phase3"
  /\ Len(messages) < MaxPlanMessages
  /\ \E message \in PlanningEvents : messages' = Append(messages, message)
  /\ UNCHANGED <<pc, requests, open, thrown, planningVars, planningFrame>>

\* Lines 505-512: the stream of the execution ends and the call returns.
Phase3End ==
  /\ pc = "phase3"
  /\ executed' = TRUE
  /\ open' = open \ {ExecuteStream}
  /\ pc' = "planned"
  /\ UNCHANGED <<messages, requests, thrown, currentPlan, currentIteration, planApproved,
                 planningFrame>>

\* The stream of the phase in progress throws: no phase catches, the error
\* leaves the call.
PlanningStreamThrow ==
  /\ pc \in {"phase1", "phase2", "phase3"}
  /\ \E error \in PlanningStreamErrors : thrown' = Some(error)
  /\ open' = open \ {PlanStream, RefineStream, ExecuteStream}
  /\ pc' = "planningThrew"
  /\ UNCHANGED <<messages, requests, planningVars, planningFrame>>

PlanningNext ==
  \/ PlanningBegin
  \/ Phase1Message
  \/ Phase1End
  \/ Phase2Message
  \/ Phase2End
  \/ Phase3Message
  \/ Phase3End
  \/ PlanningStreamThrow

SpecPlanning == PlanningInit /\ [][PlanningNext]_vars

\* execute() of the first class and the planning loop of the other, each from
\* its own beginning: every loop that consumes an agent stream.
StreamsInit == Init \/ PlanningInit

StreamsNext == Next \/ PlanningNext

SpecStreams == StreamsInit /\ [][StreamsNext]_vars

\* ------------------------------------------------- claims on the agent streams
\* C27: at every moment at most one agent stream is open, and it is a stream
\* of the item in progress: no stream of another item is open, and the
\* fallback stream of an item is open only when its first stream is not.
C27_AtMostOneStreamOpen ==
  /\ Cardinality(open) <= 1
  /\ \A id \in open : id[1] = itemIndex /\ pc \in {"streaming", "fallback"}
  /\ (pc = "fallback") => (open = {FallbackId(itemIndex)})

\* C27 happens: the second item's fallback stream is the only open stream,
\* after two requests for that item.
C27_Witness ==
  /\ pc = "fallback"
  /\ itemIndex = 1
  /\ Len(requests) = 2
  /\ open = {FallbackId(1)}

\* The stream that the loop in progress consumes, if a loop is in progress.
StreamInUse ==
  IF pc = "streaming" THEN {FirstId(itemIndex)}
  ELSE IF pc = "fallback" THEN {FallbackId(itemIndex)}
  ELSE IF pc = "phase1" THEN {PlanStream}
  ELSE IF pc = "phase2" THEN {RefineStream}
  ELSE IF pc = "phase3" THEN {ExecuteStream}
  ELSE {}

\* C28: a stream is open only while its own loop consumes it: whichever way a
\* loop is left (its stream ended, a break on a working-directory error or on
\* a presented plan, a thrown error) its stream is open no more, and no stream
\* is open once the item is resolved or the planning call is over.
C28_StreamsReleased ==
  /\ open \subseteq StreamInUse
  /\ pc \in {"loop", "returned", "threw", "planned", "planningThrew"} => open = {}

\* C28 happens: the first event of phase 1 presented a plan, the loop was left
\* by its break, and only the stream of the refinement is open.
C28_Witness ==
  /\ pc = "phase2"
  /\ Len(messages) = 1
  /\ HasExitPlanTool(messages[1])
  /\ currentPlan = "1. edit b.ts"
  /\ open = {RefineStream}

\* ---------------------------------------------------- claims on the request
\* C29: the system prompt of every request sent for the item is, in plan mode,
\* the user's text, a blank line and the planning instructions, or the
\* planning instructions alone when the user gave no text; outside plan mode
\* it is the user's text, and the request has no system prompt when that is
\* empty.
C29_SystemPromptComposition ==
  \A i \in DOMAIN requests :
     LET sent == requests[i].options.systemPrompt
         planMode ==
           item.operation = "plan" \/ (item.operation = "query" /\ item.enablePlanMode)
     IN  IF planMode
         THEN IF item.systemPrompt # ""
              THEN sent = Some(<<item.systemPrompt, "\n\n", PlanningPrompt>>)
              ELSE sent = Some(<<PlanningPrompt>>)
         ELSE IF item.systemPrompt # ""
              THEN sent = Some(<<item.systemPrompt>>)
              ELSE sent = None

\* C29 happens: a request of a plan-mode item went out with the user's text
\* before the planning instructions.
C29_Witness ==
  /\ Len(requests) >= 1
  /\ item.systemPrompt = "be brief"
  /\ requests[1].options.systemPrompt = Some(<<"be brief", "\n\n", PlanningPrompt>>)

\* C30: the continue flag of every request sent is set exactly when the
\* operation is 'approve' or 'continue'; the prompt sent for 'approve' holds
\* the original prompt, and holds the plan modifications exactly when they are
\* given and not blank.
C30_ContinuationFlag ==
  \A i \in DOMAIN requests :
     /\ (requests[i].options.continue = Some(TRUE))
           <=> (item.operation \in {"approve", "continue"})
     /\ requests[i].options.continue \in {None, Some(TRUE)}
     /\ item.operation = "approve" =>
          LET sent == requests[i].prompt
              given == IsSome(item.planModifications)
              blank == ~given \/ BlankText(Val(item.planModifications))
          IN  /\ SeqIncludes(sent, item.prompt)
              /\ ~blank => SeqIncludes(sent, Val(item.planModifications))
              /\ blank => sent = <<sent[1], item.prompt>>

\* C30 happens: the request of an 'approve' item went out with the continue
\* flag and with the modifications in its prompt.
C30_Witness ==
  /\ Len(requests) = 1
  /\ item.operation = "approve"
  /\ requests[1].options.continue = Some(TRUE)
  /\ SeqIncludes(requests[1].prompt, "add tests")

\* ------------------------------------------- claims on mid-stream detection
\* The text names the working directory: it holds 'working directory', 'cwd'
\* or 'chdir', whatever the case of its letters.
NamesWorkingDir(text) ==
  LET lower == ToLowerCase(Chars[text])
  IN  \/ Includes(lower, Chars["working directory"])
      \/ Includes(lower, Chars["cwd"])
      \/ Includes(lower, Chars["chdir"])

\* A result event with such an error, on a request with a cwd.
DetectedOn(event, cwd) ==
  /\ event.type = "result"
  /\ IsSome(event.error)
  /\ IsSome(cwd)
  /\ NamesWorkingDir(Val(event.error))

\* C33: an event of the first stream that is a result event with a
\* working-directory error, on a request with a cwd, ends the loop, so that
\* no event is collected after it; any other event is appended and the loop
\* goes on, so while the loop runs no collected event is such an event.
C33_EarlyStopOnDetection ==
  /\ [](pc = "streaming" =>
          \A k \in DOMAIN messages : ~DetectedOn(messages[k], Val(queryOptions).cwd))
  /\ [][\A event \in (IF pc = "streaming" THEN StreamEvents(1) ELSE {}) :
          FirstMessageYields(event, MaxDetectEvents) =>
            IF DetectedOn(event, Val(queryOptions).cwd)
            THEN pc' # "streaming" /\ messages' = <<>>
            ELSE pc' = "streaming" /\ messages' = Append(messages, event)]_vars

\* C33 happens: the second event of a stream was a result event with a
\* working-directory error, the request had a cwd, and the two events are all
\* that was collected.
C33_Witness ==
  /\ pc = "loop"
  /\ Len(returnData) = 1
  /\ IsSome(requests[1].cwd)
  /\ "messageCount" \in DOMAIN returnData[1].json
  /\ returnData[1].json.messageCount = 2
  /\ DetectedOn(returnData[1].json.messages[2], requests[1].cwd)
  /\ ~DetectedOn(returnData[1].json.messages[1], requests[1].cwd)

\* ------------------------------------------------------- claims C31 .. C40

\* The item loop is not inside an item: at its head or finished.
BetweenItems == pc \in {"loop", "returned", "threw"}

\* C37: no timer of a resolved item remains armed: every timer still armed
\* belongs to the item being processed, and between two items and after
\* execute() finished no timer is armed at all.
C37_TimersCleared ==
  /\ BetweenItems => armed = {}
  /\ \A id \in armed : id[1] = itemIndex

\* The attempt a suspended execute() is waiting for: the last request.
CurrentAttempt == requests[Len(requests)]

\* The timer armed for the k-th attempt of the current item (lines 421, 904).
TimerOfAttempt(k) == IF k = 1 THEN FirstId(itemIndex) ELSE FallbackId(itemIndex)

\* C38: a timer cancels only the attempt it was armed for.  Every request of
\* the item being streamed carries the controller of its own timer, so the
\* controllers of the first attempt and of the fallback differ and none is
\* the controller of another item; and whenever a controller becomes aborted,
\* it is the controller of a timer that was armed and has now run, so the
\* attempt in progress becomes aborted only when its own timer fires.
C38_TimerCancelsOwnAttempt ==
  /\ [](pc \in {"streaming", "fallback"} =>
          \A k \in 1..Len(requests) : requests[k].abortController = TimerOfAttempt(k))
  /\ [][\A id \in (aborted' \ aborted) : id \in armed /\ id \notin armed']_vars
  /\ [][(pc \in {"streaming", "fallback"} /\ pc' = pc
             /\ CurrentAttempt.abortController \in (aborted' \ aborted))
           => TimerOfAttempt(Len(requests)) \in (armed \ armed')]_vars

\* C38 witness: the timer of item 0, left armed by a failed validation, ran
\* while the stream of item 1 was awaited, and the attempt of item 1 is not
\* aborted.
C38_Witness ==
  /\ pc = "streaming"
  /\ itemIndex = 1
  /\ FirstId(0) \in aborted
  /\ CurrentAttempt.abortController \notin aborted

\* C39: the outcomes pushed so far have strictly increasing item indices, so
\* no index appears twice, and every outcome belongs to an item whose
\* processing is over: none to the item in progress or to a later one.
C39_OutcomesInItemOrder ==
  /\ \A i, j \in 1..Len(returnData) :
       i < j => returnData[i].pairedItem < returnData[j].pairedItem
  /\ \A i \in 1..Len(returnData) :
       /\ returnData[i].pairedItem >= 0
       /\ returnData[i].pairedItem < itemIndex
  /\ itemIndex <= nItems

\* C39 witness: the batch of two items is over, a success of item 0 and then
\* a failure of item 1 were pushed.
C39_Witness ==
  /\ pc = "returned"
  /\ Len(returnData) = 2
  /\ IsSuccessShaped(returnData[1])
  /\ IsErrorShaped(returnData[2])
  /\ returnData[2].pairedItem = 1

\* execute() with its scheduling: the synchronous code between two awaits
\* runs to completion (the loop head and the return), the awaited path
\* validation resolves, and each agent stream eventually ends, by completing
\* or by throwing (an AbortError once its timer fired, or another error).
\* The timer callbacks get no fairness: a timer may be cleared before it runs.
Fairness ==
  /\ WF_vars(BeginItem)
  /\ WF_vars(PathValidated)
  /\ WF_vars(FirstStreamEnd \/ FirstStreamThrow)
  /\ WF_vars(FallbackStreamEnd \/ FallbackStreamThrow)
  /\ WF_vars(Return)

SpecLive == Init /\ [][Next]_vars /\ Fairness

\* execute() eventually returns or throws, and the loop counter never goes
\* back or skips an item.
Terminates ==
  /\ <>(pc \in {"returned", "threw"})
  /\ [][itemIndex' \in {itemIndex, itemIndex + 1}]_vars

\* Some outcome is paired with item i.
HasOutcome(i) == \E k \in 1..Len(returnData) : returnData[k].pairedItem = i

\* C40: for every finite batch whose streams all end, execute() eventually
\* terminates without revisiting an item, and every item is resolved with an
\* outcome or with the error that aborts the batch: when execute() returns,
\* every item has an outcome, and when it throws, every item before the one
\* that failed has one.
C40_EveryItemResolved ==
  /\ Terminates
  /\ [](pc = "returned" => \A i \in 0..(nItems - 1) : HasOutcome(i))
  /\ [](pc = "threw" => \A i \in 0..(itemIndex - 1) : HasOutcome(i))

\* The option maxPlanningIterations as the user set it, its documented
\* default when it is not set.
PlanningIterationsAllowed ==
  IF IsSome(item.maxPlanningIterations)
  THEN Val(item.maxPlanningIterations) ELSE DefaultPlanningIterations

\* What kind of request of the planning loop a request is: the request of
\* each phase has a system prompt of its own.
IsRefinement(request) ==
  request.options.systemPrompt = RefinementOptions("", Val(queryOptions)).options.systemPrompt
IsExecution(request) ==
  request.options.systemPrompt = ExecutionOptions("", Val(queryOptions)).options.systemPrompt
IsInitialPlan(request) ==
  request.options.systemPrompt = Some(<<DetailedPlanningInstructions>>)

\* The refinement requests issued so far.
RefinementRounds == Cardinality({k \in 1..Len(requests) : IsRefinement(requests[k])})

\* C32: interactive planning performs at most maxPlanningIterations
\* refinement rounds, for every value of the option that is a number of
\* rounds, 0 included.
C32_RefinementRoundsBounded ==
  PlanningIterationsAllowed >= 0 =>
    /\ currentIteration <= PlanningIterationsAllowed
    /\ RefinementRounds <= PlanningIterationsAllowed

\* The execution request, if one was issued.
ExecutionRequests == {k \in 1..Len(requests) : IsExecution(requests[k])}

\* C34: the agent is queried in the order plan, refine, execute: the first
\* request asks for the plan, every later one is a refinement or the
\* execution, and the execution is the last.  The execution is requested only
\* for a plan that was obtained and approved and only if
\* autoExecuteAfterApproval is not false; the call returns executed = true
\* exactly when the execution request ran to completion; and when phase 1
\* yields no plan the call throws 'Failed to generate initial plan' having
\* issued the plan request only.
C34_PlanRefineExecute ==
  /\ \A k \in 1..Len(requests) :
       /\ IsInitialPlan(requests[k]) <=> k = 1
       /\ k > 1 => (IsRefinement(requests[k]) \/ IsExecution(requests[k]))
       /\ IsExecution(requests[k]) => k = Len(requests)
  /\ ExecutionRequests # {} =>
       /\ currentPlan # ""
       /\ planApproved
       /\ RefinementRounds >= 1
       /\ item.autoExecuteAfterApproval # Some(FALSE)
       /\ requests[Len(requests)] = ExecutionOptions(currentPlan, Val(queryOptions))
  /\ pc = "planned" => (executed <=> ExecutionRequests # {})
  /\ executed => pc = "planned"
  /\ pc \in {"phase2", "phase3", "planned"} => currentPlan # ""
  /\ (pc = "planningThrew" /\ currentPlan = "") =>
       /\ Len(requests) = 1
       /\ thrown \in {Some(ErrorOf("ApplicationError", <<"Failed to generate initial plan">>))}
                       \cup {Some(e) : e \in PlanningStreamErrors}

\* C34 witness: plan, one refinement and the execution were requested in
\* this order and the call returned executed = true.
C34_Witness ==
  /\ pc = "planned"
  /\ executed
  /\ Len(requests) = 3
  /\ IsRefinement(requests[2])
  /\ IsExecution(requests[3])

\* Phase 1 ended without a plan and the call threw.
C34_NoPlanWitness ==
  /\ pc = "planningThrew"
  /\ thrown = Some(ErrorOf("ApplicationError", <<"Failed to generate initial plan">>))
  /\ Len(messages) > 0

\* ---------------------------- the execute() that changes the working directory
\* execute() of the first class of src/unnamed/part_001 (lines 515-963), for
\* the operations 'query' and 'testPath': it validates the project path with
\* a synchronous validator, changes the working directory of the process
\* before the agent call and restores it in a finally block.  It keeps its
\* position in pc ("loop", "chdirStreaming", "returned", "threw").  The
\* planning loop that the operation 'interactivePlan' calls is SpecPlanning.

\* What the probes of the synchronous validator can meet at a path.
SyncFsStates ==
  [exists : BOOLEAN, isDirectory : BOOLEAN, readable : BOOLEAN, writable : BOOLEAN]

\* validateProjectPath of lines 288-337.
ValidateProjectPathSync(projectPath, fs) ==
  LET resolvedPath == PathResolve(projectPath)
  IN  IF ~fs.exists
      THEN [valid |-> FALSE,
            error |-> Some(<<"Project directory does not exist: ", resolvedPath,
                             ". Please create the directory or check the path.">>),
            warning |-> None]
      ELSE IF ~fs.isDirectory
      THEN [valid |-> FALSE,
            error |-> Some(<<"Project path is not a directory: ", resolvedPath,
                             ". Please specify a valid directory path.">>),
            warning |-> None]
      ELSE IF ~fs.readable
      THEN [valid |-> FALSE,
            error |-> Some(<<"No read permission for project directory: ", resolvedPath,
                             ". Please check directory permissions.">>),
            warning |-> None]
      ELSE IF ~fs.writable
      THEN [valid |-> FALSE,
            error |-> None,
            warning |-> Some(<<"No write permission for project directory: ", resolvedPath,
                               ". Claude Code may not be able to create or modify files.">>)]
      ELSE [valid |-> TRUE, error |-> None, warning |-> None]

\* `${value}` of a template literal: an undefined value reads 'undefined'.
Interpolated(value) == IF IsSome(value) THEN Val(value) ELSE <<"undefined">>

\* The parameters read for one item (lines 522-538).
ChdirParams(operation, prompt, projectPath, outputFormat) ==
  [operation |-> operation, prompt |-> prompt, model |-> "sonnet", maxTurns |-> 5,
   timeout |-> DefaultTimeout, projectPath |-> projectPath,
   outputFormat |-> outputFormat, requirePermissions |-> FALSE]

\* The items of a batch: the prompt of a 'testPath' item is the hidden
\* parameter, '' unless an expression or an earlier operation left a value.
ChdirInputs ==
  { ChdirParams(operation, prompt, projectPath, outputFormat) :
      operation \in {"query", "testPath"}, prompt \in {"", "fix"},
      projectPath \in {"", "/p"}, outputFormat \in {"text", "messages"} }

\* queryOptions of lines 667-716 for a 'query' item.
ChdirQueryOptionsOf(it, cwd, controller) ==
  [prompt |-> it.prompt, abortController |-> controller, cwd |-> cwd,
   options |-> [maxTurns |-> it.maxTurns,
                permissionMode |-> IF it.requirePermissions THEN "default"
                                   ELSE "bypassPermissions",
                model |-> it.model]]

\* Lines 583-616: the outcome of 'testPath'.
TestPathOutcome(projectPath, validation, cwdNow, idx) ==
  [json |-> [test |-> "project_path_validation",
             originalPath |-> projectPath,
             resolvedPath |-> PathResolve(Trim(projectPath)),
             valid |-> validation.valid,
             error |-> validation.error,
             warning |-> validation.warning,
             systemContext |-> [currentWorkingDirectory |-> cwdNow],
             success |-> validation.valid],
   pairedItem |-> idx]

\* Lines 854-908: what is pushed after the stream ended.
ChdirOutcomes(collected, it, idx) ==
  IF it.outputFormat = "text"
  THEN LET rm == ResultMessage(collected)
       IN  <<[json |-> [result |-> IF IsSome(rm)
                                   THEN LET r == OrElse(Val(rm).result, Val(rm).error)
                                        IN  IF IsSome(r) THEN Val(r) ELSE ""
                                   ELSE "",
                        success |-> IsSome(rm) /\ Val(rm).subtype = "success",
                        duration_ms |-> IF IsSome(rm) THEN Val(rm).duration_ms ELSE None,
                        total_cost_usd |-> IF IsSome(rm) THEN Val(rm).total_cost_usd
                                           ELSE None],
              pairedItem |-> idx]>>
  ELSE IF it.outputFormat = "messages"
  THEN <<[json |-> MessagesJson(collected), pairedItem |-> idx]>>
  ELSE <<>>

\* Lines 935-948: the error-shaped outcome of this class.
ChdirErrorOutcome(error, idx) ==
  [json |-> [error |-> ErrorMessage(error),
             errorType |-> IF IsTimeout(error) THEN "timeout" ELSE "execution_error",
             itemIndex |-> idx],
   pairedItem |-> idx]

\* Lines 950-958: the error execute() throws when continue-on-fail is off.
ChdirUserFriendlyError(error, it) ==
  [isError |-> TRUE, name |-> "NodeOperationError",
   message |->
     IF IsTimeout(error)
     THEN <<"Operation timed out after ", ToString(it.timeout),
            " seconds. Consider increasing the timeout in Additional Options.">>
     ELSE <<"Claude Code execution failed: ">> \o ErrorMessage(error),
   description |-> ErrorMessage(error)]

\* The outer catch of lines 932-959.
ChdirOuterCatch(error, it) ==
  /\ IF continueOnFail
     THEN /\ pc' = "loop"
          /\ itemIndex' = itemIndex + 1
          /\ thrown' = thrown
          /\ returnData' = Append(returnData, ChdirErrorOutcome(error, itemIndex))
     ELSE /\ pc' = "threw"
          /\ UNCHANGED <<returnData, itemIndex>>
          /\ thrown' = Some(ChdirUserFriendlyError(error, it))
  /\ ForgetLocals

\* What process.chdir can throw.
ChdirErrors ==
  { ErrorOf("Error", <<"ENOENT: no such file or directory, chdir '/srv/n8n' -> '/p'">>) }

\* The finally block of lines 915-930 for a working directory now: the
\* directory is restored, unless the call did not change it or
\* process.chdir(originalCwd) throws, which is logged and nothing else.
RestoredFrom(now) ==
  /\ processCwd' \in (IF workingDirectoryChanged THEN {originalCwd, now} ELSE {now})
  /\ workingDirectoryChanged' = FALSE
  /\ originalCwd' = StartDirectory

ChdirInit ==
  /\ nItems \in 0..MaxItems
  /\ continueOnFail \in BOOLEAN
  /\ pc = "loop"
  /\ itemIndex = 0
  /\ item = NoItem
  /\ queryOptions = None
  /\ messages = <<>>
  /\ querySucceeded = FALSE
  /\ queryError = None
  /\ fallbackError = None
  /\ returnData = <<>>
  /\ thrown = None
  /\ armed = {}
  /\ aborted = {}
  /\ requests = <<>>
  /\ open = {}
  /\ ValidatorAtRest
  /\ PlanningAtRest
  /\ ChdirAtRest

chdirFrame ==
  <<validatorVars, planningVars, nItems, continueOnFail, queryError, fallbackError,
    querySucceeded>>

\* Lines 520-826 for the parameters it, when the validator meets the
\* filesystem state fs and process.chdir succeeds or not (entered): the timer
\* is armed, the prompt is checked, 'testPath' is answered, the project path
\* is validated, the working directory is changed and the request is issued.
ChdirBeginItemWith(it, fs, entered) ==
  /\ pc = "loop"
  /\ itemIndex < nItems
  /\ LET validation == ValidateProjectPathSync(Trim(it.projectPath), fs)
         hasPath == it.projectPath # "" /\ ~TrimIsEmpty(it.projectPath)
         cwd == IF hasPath THEN Some(PathResolve(Trim(it.projectPath))) ELSE None
         unchanged == /\ armed' = armed \cup {FirstId(itemIndex)}
                      /\ UNCHANGED <<requests, open, chdirVars>>
     IN  IF it.prompt = "" \/ TrimIsEmpty(it.prompt)
         THEN /\ ChdirOuterCatch(NodeOperationError(<<"Prompt is required and cannot be empty">>), it)
              /\ unchanged
         ELSE IF it.operation = "testPath"
         THEN IF ~hasPath
              THEN /\ ChdirOuterCatch(NodeOperationError(
                        <<"Project Path is required for Test Project Path operation">>), it)
                   /\ unchanged
              ELSE /\ NextItem(<<TestPathOutcome(it.projectPath, validation, processCwd,
                                                 itemIndex)>>)
                   /\ unchanged
         ELSE IF hasPath /\ ~validation.valid
         THEN /\ ChdirOuterCatch(NodeOperationError(
                   <<"Project Path Error: ">> \o Interpolated(validation.error)), it)
              /\ unchanged
         ELSE IF IsSome(cwd) /\ Val(cwd) # processCwd /\ ~entered
         THEN \* process.chdir(queryOptions.cwd) throws: lines 912-914 clear the
              \* timer and rethrow, the finally block has nothing to restore
              /\ armed' = armed
              /\ \E error \in ChdirErrors : ChdirOuterCatch(error, it)
              /\ UNCHANGED <<requests, open, chdirVars>>
         ELSE /\ armed' = armed \cup {FirstId(itemIndex)}
              /\ originalCwd' = processCwd
              /\ workingDirectoryChanged' = (IsSome(cwd) /\ Val(cwd) # processCwd)
              /\ processCwd' = IF IsSome(cwd) THEN Val(cwd) ELSE processCwd
              /\ item' = it
              /\ queryOptions' = Some(ChdirQueryOptionsOf(it, cwd, FirstId(itemIndex)))
              /\ requests' = <<ChdirQueryOptionsOf(it, cwd, FirstId(itemIndex))>>
              /\ open' = open \cup {FirstId(itemIndex)}
              /\ pc' = "chdirStreaming"
              /\ UNCHANGED <<returnData, itemIndex, thrown, messages, aborted>>
  /\ UNCHANGED chdirFrame

ChdirBeginItem ==
  \E it \in ChdirInputs, fs \in SyncFsStates, entered \in BOOLEAN :
     ChdirBeginItemWith(it, fs, entered)

\* Lines 826-841: the stream yields an event.
ChdirMessage ==
  /\ pc = "chdirStreaming"
  /\ Len(messages) < MaxEvents
  /\ \E message \in StreamEvents(1) : messages' = Append(messages, message)
  /\ UNCHANGED <<pc, itemIndex, item, queryOptions, returnData, thrown, armed, aborted,
                 requests, open, chdirVars, chdirFrame>>

\* Lines 844-909 and 915-930: the stream ends; the timer is cleared, the
\* outcome is pushed and the working directory is restored.
ChdirStreamEnd ==
  /\ pc = "chdirStreaming"
  /\ armed' = armed \ {FirstId(itemIndex)}
  /\ open' = open \ {FirstId(itemIndex)}
  /\ NextItem(ChdirOutcomes(messages, item, itemIndex))
  /\ RestoredFrom(processCwd)
  /\ UNCHANGED <<requests, chdirFrame>>

\* Lines 912-959: the stream throws (an AbortError once the timer ran); the
\* timer is cleared, the working directory is restored and the error reaches
\* the outer catch.
ChdirStreamThrow ==
  /\ pc = "chdirStreaming"
  /\ armed' = armed \ {FirstId(itemIndex)}
  /\ open' = open \ {FirstId(itemIndex)}
  /\ \E error \in StreamErrors(requests[1].abortController) : ChdirOuterCatch(error, item)
  /\ RestoredFrom(processCwd)
  /\ UNCHANGED <<requests, chdirFrame>>

\* The timer callback of line 544 runs while execute() is suspended or over.
ChdirTimerFires ==
  /\ pc \in {"chdirStreaming", "returned", "threw"}
  /\ \E id \in armed :
       /\ armed' = armed \ {id}
       /\ aborted' = aborted \cup {id}
  /\ UNCHANGED <<pc, itemIndex, item, queryOptions, messages, returnData, thrown,
                 requests, open, chdirVars, chdirFrame>>

\* Line 961: return [returnData].
ChdirReturn ==
  /\ pc = "loop"
  /\ itemIndex >= nItems
  /\ pc' = "returned"
  /\ UNCHANGED <<itemIndex, item, queryOptions, messages, returnData, thrown, armed,
                 aborted, requests, open, chdirVars, chdirFrame>>

ChdirNext ==
  \/ ChdirBeginItem
  \/ ChdirMessage
  \/ ChdirStreamEnd
  \/ ChdirStreamThrow
  \/ ChdirTimerFires
  \/ ChdirReturn

SpecChdir == ChdirInit /\ [][ChdirNext]_vars

\* C31: whenever the item loop is between two items or over, the working
\* directory of the process is the one it had before the item started, which
\* is the directory the process was started in: no item starts in the
\* directory of another item.
C31_WorkingDirectoryRestored ==
  (pc \in {"loop", "returned", "threw"}) => processCwd = StartDirectory

\* The outcome is the answer of 'testPath' for the validation result.
IsTestPathOutcome(outcome, validation) ==
  /\ "test" \in DOMAIN outcome.json
  /\ outcome.json.test = "project_path_validation"
  /\ outcome.json.valid = validation.valid
  /\ outcome.json.success = validation.valid

\* C35: an item of operation 'testPath' with a non-empty project path yields
\* exactly one outcome, the path-validation outcome whose success is the
\* validation's valid flag, and issues no agent request, whatever its prompt.
C35_TestPathAnswered ==
  [][\A it \in (IF pc = "loop" THEN ChdirInputs ELSE {}) :
       \A fs \in SyncFsStates, entered \in BOOLEAN :
          (/\ it.operation = "testPath"
           /\ it.projectPath # ""
           /\ ~TrimIsEmpty(it.projectPath)
           /\ ChdirBeginItemWith(it, fs, entered))
          => /\ Len(returnData') = Len(returnData) + 1
             /\ IsTestPathOutcome(returnData'[Len(returnData')],
                                  ValidateProjectPathSync(Trim(it.projectPath), fs))
             /\ returnData'[Len(returnData')].pairedItem = itemIndex
             /\ thrown' = None
             /\ requests' = requests
             /\ open' = open]_vars

\* The reasons a rejected project path can be given.
ConcreteReasons ==
  { "Project directory does not exist: ", "Project path is not a directory: ",
    "No read permission for project directory: ",
    "No write permission for project directory: " }

\* The message is that of a rejected project path and names a reason.
NamesReason(message) ==
  (Len(message) >= 1 /\ message[1] = "Project Path Error: ")
    => (Len(message) >= 2 /\ message[2] \in ConcreteReasons)

\* C36: every validation result that reports the path as invalid carries an
\* error message, and the error execute() raises for a rejected project path,
\* thrown or pushed as an error outcome, names a concrete reason.
C36_InvalidPathNamesReason ==
  /\ \A i \in 1..Len(returnData) :
       LET json == returnData[i].json
       IN  IF "test" \in DOMAIN json
           THEN ~json.valid => IsSome(json.error)
           ELSE "error" \in DOMAIN json => NamesReason(json.error)
  /\ IsSome(thrown) => NamesReason(Val(thrown).description)

====
